---- MODULE Spec2Model ----
(***************************************************************************)
(* DataGenFlow: the job scheduler (lib/job_queue.py), the job processor    *)
(* (lib/job_processor.py), the pipeline executor (lib/workflow.py), the    *)
(* jobs and records tables (lib/storage.py) and the request handlers       *)
(* generate / cancel_job / delete_all_records (app.py).                    *)
(*                                                                         *)
(* Spec      the job system: request handlers on the event loop, one       *)
(*           worker thread per admitted job, the queue and the storage.    *)
(* SpecJob   one job over every pipeline and seed file, with the           *)
(*           multiplier path, the wall clock and the history variables of  *)
(*           the claims.                                                   *)
(* FairSpec  Spec with weak fairness on every step that continues a        *)
(*           request or a worker already started.                          *)
(* SpecExec  one execution of a pipeline, normal or with a multiplier,      *)
(*           called directly or for a job that may be cancelled, with the  *)
(*           keys of accumulated_state, the block outputs and the traces.  *)
(* SpecBuild the construction of a pipeline from any list of blocks.       *)
(* SpecLimits Constraints.is_exceeded on any limits and usage.             *)
(* SpecPipe  one job of one pipeline and the requests that delete the       *)
(*           pipeline.                                                     *)
(* SpecLib   the components that keep state of their own, one at a time:   *)
(*           the model tables of the storage, the progress fields a worker *)
(*           writes, the block registry, the debounced file handler, the   *)
(*           usage tracker, the queue's mirror over many jobs, the trace   *)
(*           ids of the executions of a job, the requests that edit the    *)
(*           accumulated state of one record, the template registry under  *)
(*           the events of the user templates directory.                   *)
(* SpecQueue the JobQueue called directly, in any order, by a caller that    *)
(*           keeps and changes the jobs the getters return.                *)
(* SpecS3    one job of a normal pipeline with a token limit over ten      *)
(*           seeds (the spec's scenario S3).                               *)
(*                                                                         *)
(* Granularity: one action per access to shared state (a JobQueue method   *)
(* under its lock, one storage statement) together with the thread-local   *)
(* computation that follows it. Fields of a job that only report progress  *)
(* (current_seed, current_block, current_step, progress, total_seeds,      *)
(* started_at, completed_at) are not part of the state.                    *)
(***************************************************************************)
EXTENDS Integers, Sequences, FiniteSets, TLC

\* ---------------------------------------------------------------- bounds
MaxJobs == 2      \* job rows the storage hands out (ids 1..MaxJobs)
MaxReq == 2       \* generate requests in flight at once
MaxSeeds == 2     \* seeds in a seed file
MaxReps == 2      \* repetitions of one seed
NBlocks == 2      \* blocks of a pipeline (the multiplier included)
MaxFan == 2       \* seed maps a multiplier block produces
TokLimit == 3     \* max_total_tokens of the normal pipeline
TimeLimit == 1    \* max_total_execution_time of the multiplier pipeline
MaxKeys == 2      \* keys a block of SpecExec may return beyond "_usage"
MaxModels == 3    \* model names of each model table (SpecLib)
MaxTypes == 2     \* block type names of the registry (SpecLib)
MaxEvents == 3    \* file events delivered to the debounced handler (SpecLib)
MaxPaths == 2     \* paths the events are about
MaxVersions == 2  \* contents a user template file can have (SpecLib)
MaxThreads == 2   \* threads that call the usage tracker (SpecLib)
MaxTraces == 2    \* trace ids of the usage tracker
MaxCalls == 4     \* calls of the usage tracker
MaxClock == 5     \* readings of the clock in SpecQueue
MaxMirror == 11   \* jobs created one after the other in the queue (SpecLib)
MaxExecs == 3     \* executions whose contexts are created (SpecLib)
MaxCallers == 2   \* requests that update one record (SpecLib)
MaxTrace == 2     \* entries of the record's trace
MaxPipeLen == 6   \* blocks of a pipeline under construction (SpecBuild)
MaxLimit == 2     \* largest limit of a Constraints object (SpecLimits)
MaxUse == 2       \* largest usage figure (SpecLimits)
S3Seeds == 10     \* scenario S3: seeds of one repetition each
S3Tokens == 8     \* scenario S3: tokens one execution reports
S3Limit == 20     \* scenario S3: max_total_tokens

\* ------------------------------------------------------ program constants
HistoryMax == 10  \* deque(maxlen=10)
Unlimited == -1   \* Constraints: -1 means unlimited

JobIds == 1 .. MaxJobs
None == 0
PipeIds == {"normal", "mult", "missing", "s3"}
Status == {"running", "completed", "failed", "cancelled", "stopped"}
TERMINAL_STATUSES == {"completed", "failed", "cancelled", "stopped"}

VARIABLES
    \* JobQueue
    queued,     \* keys of _jobs
    job,        \* _jobs[j]: [status, rg, rf, tok, tstart, pipeline_id]
    active,     \* _active_job (None = 0)
    history,    \* _job_history: pipeline id -> sequence of job ids
    \* Storage
    dbRows,     \* ids of the rows of table jobs
    dbJob,      \* jobs row: [status, rg, rf, tok]
    dbRecs,     \* number of rows of table records with job_id = j
    nextId,     \* AUTOINCREMENT of table jobs
    \* request handlers in flight
    genRead,    \* generate requests between the active check and the row insert
    gen,        \* per job id: "none" | "row" | "admitted" | "rejected"
    cancelReq,  \* cancel_job handler between the queue call and the row update
    delReq,     \* delete_all_records handler between the delete and delete_job
    \* worker threads and wall clock
    w,          \* per job id: the locals of _process_job / Pipeline.execute
    phase,      \* per job id: 0 | 1 (limit elapsed since create_job's start_time)
                \*           | 2 (limit elapsed since the processor's start_time)
    \* history variables of the claims
    cancelRet,  \* cancel_job(j) returned while j was running
    chk,        \* after that, the worker of j passed a check that saw "cancelled"
    blkAfter,   \* block invocations begun in the current execution since cancelRet
    badStart,   \* an execution was started while the mirror said cancelled/stopped
    \* the environment of a behaviour, fixed by Init
    env,        \* [jobs: generate requests it makes, pipes: pipeline ids it
                \*  names, files: seed files it uploads, fan: most seed maps
                \*  its multiplier input yields, track: whether the history
                \*  variables of the claims are kept]
    \* SpecExec
    x           \* the locals of one _execute_normal_pipeline call

jvars == <<queued, job, active, history, dbRows, dbJob, dbRecs, nextId,
           genRead, gen, cancelReq, delReq, w, phase,
           cancelRet, chk, blkAfter, badStart>>
vars == <<jvars, env, x>>

\* ------------------------------------------------------------ constraints
\* Constraints.is_exceeded: the first limit, in declaration order, with
\* limit >= 0 and current >= limit; "none" when there is none.
NoLimits ==
    [max_total_tokens |-> Unlimited, max_total_input_tokens |-> Unlimited,
     max_total_output_tokens |-> Unlimited, max_total_cached_tokens |-> Unlimited,
     max_total_execution_time |-> Unlimited]

total_tokens(u) == u.input_tokens + u.output_tokens + u.cached_tokens

Hit_strict(limit, current) == limit >= 0 /\ current > limit
Hit(limit, current) == limit >= 0 /\ current >= limit

is_exceeded(c, u) ==
    IF Hit(c.max_total_tokens, total_tokens(u)) THEN "max_total_tokens"
    ELSE IF Hit(c.max_total_input_tokens, u.input_tokens) THEN "max_total_input_tokens"
    ELSE IF Hit(c.max_total_output_tokens, u.output_tokens) THEN "max_total_output_tokens"
    ELSE IF Hit(c.max_total_cached_tokens, u.cached_tokens) THEN "max_total_cached_tokens"
    ELSE IF Hit(c.max_total_execution_time, u.elapsed_time) THEN "max_total_execution_time"
    ELSE "none"

\* The pipelines table: a normal pipeline with a token limit, a multiplier
\* pipeline with a time limit; "missing" has no row.
PipelineConstraints(p) ==
    IF p = "normal" THEN [NoLimits EXCEPT !.max_total_tokens = TokLimit]
    ELSE IF p = "mult" THEN [NoLimits EXCEPT !.max_total_execution_time = TimeLimit]
    ELSE IF p = "s3" THEN [NoLimits EXCEPT !.max_total_tokens = S3Limit]
    ELSE NoLimits

\* Usage.elapsed_time of a usage whose start_time was stamped by create_job
\* ("create") or by the processor's pipeline.Usage() ("proc"), read now.
elapsed_time(j, tstart) ==
    IF (tstart = "create" /\ phase[j] >= 1) \/ phase[j] >= 2 THEN TimeLimit ELSE 0

\* The blocks of this model report input tokens only.
UsageOf(j, tok, tstart) ==
    [input_tokens |-> tok, output_tokens |-> 0, cached_tokens |-> 0,
     elapsed_time |-> elapsed_time(j, tstart)]

\* ------------------------------------------------------------- JobQueue
NoJob == [status |-> "none", rg |-> 0, rf |-> 0, tok |-> 0, tstart |-> "create",
          pipeline_id |-> "none", error |-> "None"]

Apply(rec, upd) ==
    [f \in DOMAIN rec |-> IF f \in DOMAIN upd THEN upd[f] ELSE rec[f]]

\* deque(maxlen=10).append
Append10(h, j) ==
    LET a == Append(h, j)
    IN IF Len(a) > HistoryMax THEN SubSeq(a, 2, Len(a)) ELSE a

Without(h, j) == SelectSeq(h, LAMBDA e : e # j)

\* create_job without the check of the active slot
create_job_unguarded(j, p) ==
    /\ queued' = queued \cup {j}
    /\ job' = [job EXCEPT ![j] = [NoJob EXCEPT !.status = "running",
                                               !.pipeline_id = p]]
    /\ active' = j
    /\ history' = [history EXCEPT ![p] = Append10(@, j)]

\* create_job that records the job in the history before it checks the slot
create_job_history_first(j, p) ==
    /\ history' = [history EXCEPT ![p] = Append10(@, j)]
    /\ IF active # None
       THEN UNCHANGED <<queued, job, active>>
       ELSE /\ queued' = queued \cup {j}
            /\ job' = [job EXCEPT ![j] = [NoJob EXCEPT !.status = "running",
                                                       !.pipeline_id = p]]
            /\ active' = j

\* JobQueue.create_job: RuntimeError and nothing stored when the slot is taken
create_job(j, p) ==
    IF active # None
    THEN UNCHANGED <<queued, job, active, history>>
    ELSE /\ queued' = queued \cup {j}
         /\ job' = [job EXCEPT ![j] = [NoJob EXCEPT !.status = "running",
                                                    !.pipeline_id = p]]
         /\ active' = j
         /\ history' = [history EXCEPT ![p] = Append10(@, j)]

\* update_job that leaves the active slot alone on a terminal status
update_job_keeps_slot(j, upd) ==
    IF j \notin queued
    THEN UNCHANGED <<queued, job, active, history>>
    ELSE /\ job' = [job EXCEPT ![j] = Apply(@, upd)]
         /\ UNCHANGED <<queued, active, history>>

\* JobQueue.update_job
update_job(j, upd) ==
    IF j \notin queued
    THEN UNCHANGED <<queued, job, active, history>>
    ELSE /\ job' = [job EXCEPT ![j] = Apply(@, upd)]
         /\ active' = IF "status" \in DOMAIN upd /\ upd.status \in TERMINAL_STATUSES
                         /\ active = j
                      THEN None ELSE active
         /\ UNCHANGED <<queued, history>>

\* JobQueue.cancel_job (the caller has checked j \in queued: else it returns False)
cancel_job(j) ==
    /\ job' = [job EXCEPT ![j].status = "cancelled"]
    /\ active' = IF active = j THEN None ELSE active
    /\ UNCHANGED <<queued, history>>

\* JobQueue.delete_job
delete_job(j) ==
    IF j \notin queued
    THEN UNCHANGED <<queued, job, active, history>>
    ELSE /\ queued' = queued \ {j}
         /\ job' = [job EXCEPT ![j] = NoJob]
         /\ history' = [history EXCEPT ![job[j].pipeline_id] = Without(@, j)]
         /\ active' = IF active = j THEN None ELSE active

\* The status get_job(j) reports, "none" when get_job returns None. The job
\* processor reads it as get_job(j).get("status"), the executor as
\* get_job(j).status: both are the status the queue holds at that instant.
get_status(j) == IF j \in queued THEN job[j].status ELSE "none"

\* --------------------------------------------------------------- Storage
\* a row of table jobs as get_job / list_jobs read it; the table has no usage
\* column, tok is the usage a reader of the row gets (the default, zeros)
NoRow == [status |-> "none", rg |-> 0, rf |-> 0, tok |-> 0]

\* Storage.update_job: only the columns of valid_fields (usage is not among
\* them), on the row if any
valid_fields == {"status", "rg", "rf"}

StorageUpdateJob(j, upd) ==
    /\ dbJob' = IF j \in dbRows
                THEN [dbJob EXCEPT ![j] =
                        [f \in DOMAIN @ |->
                            IF f \in DOMAIN upd /\ f \in valid_fields
                            THEN upd[f] ELSE @[f]]]
                ELSE dbJob
    /\ UNCHANGED <<dbRows, dbRecs, nextId>>

\* Storage.save_record(record, pipeline_id, job_id=j)
StorageSaveRecord(j) ==
    /\ dbRecs' = [dbRecs EXCEPT ![j] = @ + 1]
    /\ UNCHANGED <<dbRows, dbJob, nextId>>

qvars == <<queued, job, active, history>>
svars == <<dbRows, dbJob, dbRecs, nextId>>
hvars == <<genRead, gen, cancelReq, delReq>>
gvars == <<cancelRet, chk, blkAfter, badStart>>

\* ------------------------------------------------------ request handlers
NoUpd == [none |-> 0]

W0 == [pc |-> "idle", p |-> "none", seeds |-> <<>>, s |-> 0, r |-> 0, b |-> 0,
       rg |-> 0, rf |-> 0, tok |-> 0, etok |-> 0,
       n |-> 0, f |-> 0, nres |-> 0, rtok |-> 0, tr |-> <<>>,
       pend |-> NoUpd, nxt |-> "none"]

SetW(j, rec) == w' = [w EXCEPT ![j] = rec]

Pending == {j \in JobIds : gen[j] = "row"}

\* generate: get_active_job() finds no active job (else 409 and nothing changes)
GenCheck ==
    /\ active = None
    /\ genRead + Cardinality(Pending) < MaxReq
    /\ nextId + genRead <= env.jobs
    /\ genRead' = genRead + 1
    /\ UNCHANGED <<qvars, svars, gen, cancelReq, delReq, w, phase, gvars, env, x>>

\* generate: storage.create_job inserts the row with status running
GenRow ==
    /\ genRead > 0
    /\ genRead' = genRead - 1
    /\ dbRows' = dbRows \cup {nextId}
    /\ dbJob' = [dbJob EXCEPT ![nextId] = [NoRow EXCEPT !.status = "running"]]
    /\ nextId' = nextId + 1
    /\ gen' = [gen EXCEPT ![nextId] = "row"]
    /\ UNCHANGED <<qvars, dbRecs, cancelReq, delReq, w, phase, gvars, env, x>>

\* generate: job_queue.create_job, then process_job_in_thread starts the worker;
\* when create_job raises RuntimeError the request fails and no worker starts
GenCreate(j) ==
    /\ gen[j] = "row"
    /\ \E p \in env.pipes :
          /\ create_job(j, p)
          /\ IF j \in queued'
             THEN /\ SetW(j, [W0 EXCEPT !.pc = "load", !.p = p])
                  /\ gen' = [gen EXCEPT ![j] = "admitted"]
             ELSE /\ w' = w
                  /\ gen' = [gen EXCEPT ![j] = "rejected"]
    /\ UNCHANGED <<svars, genRead, cancelReq, delReq, phase, gvars, env, x>>

\* cancel_job handler: job_queue.cancel_job(j) (404 when it returns False)
Cancel(j) ==
    /\ cancelReq = None
    /\ j \in queued
    /\ cancel_job(j)
    /\ cancelReq' = j
    /\ cancelRet' = [cancelRet EXCEPT ![j] = @ \/ (env.track /\ job[j].status = "running")]
    /\ UNCHANGED <<svars, genRead, gen, delReq, w, phase, chk, blkAfter, badStart, env, x>>

\* cancel_job handler: storage.update_job(j, status=CANCELLED)
CancelStore ==
    /\ cancelReq # None
    /\ StorageUpdateJob(cancelReq, [status |-> "cancelled"])
    /\ cancelReq' = None
    /\ UNCHANGED <<qvars, genRead, gen, delReq, w, phase, gvars, env, x>>

\* delete_all_records handler: storage.delete_all_records(job_id=j)
DeleteStore(j) ==
    /\ delReq = None
    /\ j \in dbRows \cup queued
    /\ dbRecs' = [dbRecs EXCEPT ![j] = 0]
    /\ dbRows' = dbRows \ {j}
    /\ dbJob' = [dbJob EXCEPT ![j] = NoRow]
    /\ delReq' = j
    /\ UNCHANGED <<qvars, nextId, genRead, gen, cancelReq, w, phase, gvars, env, x>>

\* delete_all_records handler without job_id: "DELETE FROM records", the job
\* rows and the queue are left as they are
DeleteRecords ==
    /\ x.pc = "off"
    /\ dbRecs' = [j \in JobIds |-> 0]
    /\ x' = [x EXCEPT !.wiped = TRUE]
    /\ UNCHANGED <<qvars, dbRows, dbJob, nextId, hvars, w, phase, gvars, env>>

\* delete_all_records handler: job_queue.delete_job(j)
DeleteQueue ==
    /\ delReq # None
    /\ delete_job(delReq)
    /\ delReq' = None
    /\ UNCHANGED <<svars, genRead, gen, cancelReq, w, phase, gvars, env, x>>

\* wall clock: the time limit of j's pipeline elapses, first measured from the
\* start_time create_job stamped, later from the one the processor stamped
Tick(j) ==
    /\ w[j].pc \notin {"idle", "done"}
    /\ PipelineConstraints(w[j].p).max_total_execution_time >= 0
    /\ phase[j] < 2
    /\ phase[j] = 1 => w[j].pc # "load"
    /\ phase' = [phase EXCEPT ![j] = @ + 1]
    /\ UNCHANGED <<qvars, svars, hvars, w, gvars, env, x>>

\* ----------------------------------------------------------- the worker
\* seed files: 1..MaxSeeds seeds, the first of MaxReps repetitions, the others of one
SeedFiles == {[i \in 1 .. n |-> IF i = 1 THEN MaxReps ELSE 1] : n \in 1 .. MaxSeeds}

Done == [W0 EXCEPT !.pc = "done"]

\* _update_job_status(job_queue, storage, job_id, **upd), then go on at nxt
Call(rec, upd, nxt) == [rec EXCEPT !.pc = "updQ", !.pend = upd, !.nxt = nxt]

\* JobQueue.update_and_persist(job_id, storage, **upd), called by the executor's
\* _update_job_progress: the in-memory update, then the storage row update
update_and_persist(rec, upd, nxt) == Call(rec, upd, nxt)

\* the end of one pass of "for i in range(repetitions)"
NextRep(rec) ==
    [rec EXCEPT !.pc = IF rec.r < rec.seeds[rec.s] THEN "repChk" ELSE "postChk"]

\* "except Exception" of the repetition: records_failed += 1, update, continue
RepFailed(rec) ==
    Call([rec EXCEPT !.rf = @ + 1], [rf |-> rec.rf + 1, error |-> "exception"],
         NextRep(rec).pc)

\* a cancellation check point of j's worker read status st
Saw(j, st) == chk' = [chk EXCEPT ![j] = @ \/ (cancelRet[j] /\ st = "cancelled")]


\* the tokens of the _usage the b-th block of the pipeline returns
BlockTokens(b) == IF b = 1 THEN env.tok1 ELSE env.tokn

\* a block invocation of j's worker begins
Began(j) == blkAfter' = [blkAfter EXCEPT ![j] = IF cancelRet[j] THEN @ + 1 ELSE @]

\* _process_job up to the seed loop: get_pipeline, load_from_dict, the seed file
ProcLoad(j) ==
    /\ w[j].pc = "load"
    /\ \/ SetW(j, Call(w[j], [status |-> "failed", error |-> "Pipeline not found"], "done"))
       \/ /\ w[j].p # "missing"
          /\ x.pc # "off" => ~x.deleted
          /\ \E sf \in env.files :
                SetW(j, [w[j] EXCEPT !.pc = "seedChk", !.seeds = sf, !.s = 1])
    /\ UNCHANGED <<qvars, svars, hvars, phase, gvars, env, x>>

\* job_queue.update_job(job_id, **kwargs) of a pending update
UpdQueue(j) ==
    /\ w[j].pc = "updQ"
    /\ update_job(j, w[j].pend)
    /\ SetW(j, [w[j] EXCEPT !.pc = "updS"])
    /\ UNCHANGED <<svars, hvars, phase, gvars, env, x>>

\* await storage.update_job(job_id, **kwargs); the thread ends when nothing follows
UpdStore(j) ==
    /\ w[j].pc = "updS"
    /\ StorageUpdateJob(j, w[j].pend)
    /\ SetW(j, IF w[j].nxt = "done" THEN Done
               ELSE [w[j] EXCEPT !.pc = w[j].nxt, !.pend = NoUpd, !.nxt = "none"])
    /\ UNCHANGED <<qvars, hvars, phase, gvars, env, x>>

\* "for seed in seeds_data": the pre-seed check
ProcSeedChk(j) ==
    /\ w[j].pc = "seedChk"
    /\ SetW(j, IF get_status(j) = "cancelled"
               THEN [w[j] EXCEPT !.pc = "final"]
               ELSE [w[j] EXCEPT !.pc = "repChk", !.r = 0])
    /\ Saw(j, get_status(j))
    /\ UNCHANGED <<qvars, svars, hvars, phase, cancelRet, blkAfter, badStart, env, x>>

\* "for i in range(repetitions)": the pre-repetition check, then execute() starts
ProcRepChk(j) ==
    /\ w[j].pc = "repChk"
    /\ SetW(j, IF get_status(j) = "cancelled"
               THEN [w[j] EXCEPT !.pc = "postChk", !.r = @ + 1]
               ELSE IF w[j].p = "mult"
               THEN [w[j] EXCEPT !.pc = "multGo", !.r = @ + 1]
               ELSE [w[j] EXCEPT !.pc = "blkChk", !.r = @ + 1, !.b = 1, !.etok = 0])
    /\ Saw(j, get_status(j))
    /\ badStart' = [badStart EXCEPT ![j] =
                        @ \/ (/\ env.track
                              /\ w'[j].pc \in {"blkChk", "multGo"}
                              /\ get_status(j) \in {"cancelled", "stopped"})]
    /\ blkAfter' = [blkAfter EXCEPT ![j] = 0]
    /\ UNCHANGED <<qvars, svars, hvars, phase, cancelRet, env, x>>

\* _execute_normal_pipeline: the pre-block check; cancelled returns the partial result
ExecBlockChk(j) ==
    /\ w[j].pc = "blkChk"
    /\ SetW(j, [w[j] EXCEPT !.pc = IF get_status(j) = "cancelled" THEN "save" ELSE "blkGo"])
    /\ Saw(j, get_status(j))
    /\ UNCHANGED <<qvars, svars, hvars, phase, cancelRet, blkAfter, badStart, env, x>>

\* _update_job_progress(current_block), then block.execute is called
ExecBlockBegin(j) ==
    /\ w[j].pc = "blkGo"
    /\ SetW(j, [w[j] EXCEPT !.pc = "blkRun"])
    /\ Began(j)
    /\ UNCHANGED <<qvars, svars, hvars, phase, cancelRet, chk, badStart, env, x>>

\* block.execute returns (usage added, output validated and merged) or raises
ExecBlockEnd(j) ==
    /\ w[j].pc = "blkRun"
    /\ \/ SetW(j, [w[j] EXCEPT !.etok = @ + BlockTokens(w[j].b),
                               !.b = IF @ < NBlocks THEN @ + 1 ELSE @,
                               !.pc = IF w[j].b < NBlocks THEN "blkChk" ELSE "save"])
       \/ SetW(j, RepFailed(w[j]))
    /\ UNCHANGED <<qvars, svars, hvars, phase, gvars, env, x>>

\* normal path: usage accumulated, storage.save_record, records_generated += 1
ProcSave_uncounted(j) ==
    /\ w[j].pc = "save"
    /\ StorageSaveRecord(j)
    /\ SetW(j, Call([w[j] EXCEPT !.tok = @ + w[j].etok],
                    [rg |-> w[j].rg, tok |-> w[j].tok + w[j].etok, tstart |-> "proc"],
                    "cchk"))
    /\ UNCHANGED <<qvars, hvars, phase, gvars, env, x>>
ProcSave(j) ==
    /\ w[j].pc = "save"
    /\ StorageSaveRecord(j)
    /\ SetW(j, Call([w[j] EXCEPT !.rg = @ + 1, !.tok = @ + w[j].etok],
                    [rg |-> w[j].rg + 1, tok |-> w[j].tok + w[j].etok, tstart |-> "proc"],
                    "cchk"))
    /\ UNCHANGED <<qvars, hvars, phase, gvars, env, x>>

\* constraints.is_exceeded(accumulated_usage) after the repetition
ProcConstraint(j) ==
    /\ w[j].pc = "cchk"
    /\ LET name == is_exceeded(PipelineConstraints(w[j].p), UsageOf(j, w[j].tok, "proc"))
       IN SetW(j, IF name # "none"
                  THEN Call(w[j], [status |-> "stopped", tok |-> w[j].tok, tstart |-> "proc",
                                   error |-> name], "postChk")
                  ELSE NextRep(w[j]))
    /\ UNCHANGED <<qvars, svars, hvars, phase, gvars, env, x>>

\* after the inner loop: break the seed loop on cancelled or stopped
ProcPostChk(j) ==
    /\ w[j].pc = "postChk"
    /\ SetW(j, IF get_status(j) \in {"cancelled", "stopped"} \/ w[j].s >= Len(w[j].seeds)
               THEN [w[j] EXCEPT !.pc = "final"]
               ELSE [w[j] EXCEPT !.pc = "seedChk", !.s = @ + 1])
    /\ UNCHANGED <<qvars, svars, hvars, phase, gvars, env, x>>

\* final_status = get_job(job_id): completed unless cancelled or stopped
ProcFinal(j) ==
    /\ w[j].pc = "final"
    /\ SetW(j, IF get_status(j) \notin {"none", "cancelled", "stopped"}
               THEN Call(w[j], [status |-> "completed", tok |-> w[j].tok, tstart |-> "proc"],
                         "done")
               ELSE Done)
    /\ UNCHANGED <<qvars, svars, hvars, phase, gvars, env, x>>

\* ------------------------------------------------- the multiplier path
\* _execute_multiplier_pipeline: first_block.execute is called
ExecMultBegin(j) ==
    /\ w[j].pc = "multGo"
    /\ SetW(j, [w[j] EXCEPT !.pc = "mult"])
    /\ Began(j)
    /\ UNCHANGED <<qvars, svars, hvars, phase, cancelRet, chk, badStart, env, x>>

\* the multiplier block returns n >= 0 seed maps, or raises out of execute()
ExecMultEnd(j) ==
    /\ w[j].pc = "mult"
    /\ \/ \E n \in 0 .. env.fan :
             SetW(j, [w[j] EXCEPT !.pc = IF n = 0 THEN "mRet" ELSE "mSeedChk",
                                  !.n = n, !.f = IF n = 0 THEN 0 ELSE 1,
                                  !.nres = 0, !.rtok = 0])
       \/ SetW(j, RepFailed(w[j]))
    /\ UNCHANGED <<qvars, svars, hvars, phase, gvars, env, x>>

\* "for seed_idx, seed_data in enumerate(seeds)": the pre-seed check
ExecSeedChk(j) ==
    /\ w[j].pc = "mSeedChk"
    /\ SetW(j, IF get_status(j) = "cancelled"
               THEN [w[j] EXCEPT !.pc = "mRet"]
               ELSE [w[j] EXCEPT !.pc = "mBlkChk", !.b = 2, !.etok = 0, !.tr = <<>>])
    /\ Saw(j, get_status(j))
    /\ UNCHANGED <<qvars, svars, hvars, phase, cancelRet, blkAfter, badStart, env, x>>

\* _process_single_seed: the pre-block check; cancelled returns None
ExecSeedBlockChk(j) ==
    /\ w[j].pc = "mBlkChk"
    /\ SetW(j, [w[j] EXCEPT !.pc = IF get_status(j) = "cancelled" THEN "mCons" ELSE "mBlkGo"])
    /\ Saw(j, get_status(j))
    /\ UNCHANGED <<qvars, svars, hvars, phase, cancelRet, blkAfter, badStart, env, x>>

\* _update_job_progress(current_block), then _execute_block_in_seed
ExecSeedBlockBegin(j) ==
    /\ w[j].pc = "mBlkGo"
    /\ SetW(j, [w[j] EXCEPT !.pc = "mBlkRun"])
    /\ Began(j)
    /\ UNCHANGED <<qvars, svars, hvars, phase, cancelRet, chk, badStart, env, x>>

\* _execute_block_in_seed returns, or appends the error entry and raises;
\* w[j].tr is the error field of each entry of the seed's trace
ExecSeedBlockEnd(j) ==
    /\ w[j].pc = "mBlkRun"
    /\ \/ SetW(j, [w[j] EXCEPT !.etok = @ + BlockTokens(w[j].b),
                               !.tr = Append(@, "None"),
                               !.b = IF @ < NBlocks THEN @ + 1 ELSE @,
                               !.pc = IF w[j].b < NBlocks THEN "mBlkChk" ELSE "mSave"])
       \/ SetW(j, [w[j] EXCEPT !.pc = "mFail", !.tr = Append(@, "exception")])
    /\ UNCHANGED <<qvars, svars, hvars, phase, gvars, env, x>>

\* "except Exception" of the seed: records_failed = current_job.records_failed + 1
ExecSeedFail_own_counter(j) ==
    /\ w[j].pc = "mFail"
    /\ SetW(j, IF j \in queued
               THEN update_and_persist(w[j], [rf |-> w[j].rf + 1], "mCons")
               ELSE [w[j] EXCEPT !.pc = "mCons"])
    /\ UNCHANGED <<qvars, svars, hvars, phase, gvars, env, x>>
ExecSeedFail(j) ==
    /\ w[j].pc = "mFail"
    /\ SetW(j, IF j \in queued
               THEN update_and_persist(w[j], [rf |-> job[j].rf + 1], "mCons")
               ELSE [w[j] EXCEPT !.pc = "mCons"])
    /\ UNCHANGED <<qvars, svars, hvars, phase, gvars, env, x>>

\* _save_seed_result: storage.save_record
ExecSeedSave(j) ==
    /\ w[j].pc = "mSave"
    /\ StorageSaveRecord(j)
    /\ SetW(j, [w[j] EXCEPT !.pc = "mGen"])
    /\ UNCHANGED <<qvars, hvars, phase, gvars, env, x>>

\* _save_seed_result: records_generated = current_job.records_generated + 1
ExecSeedGenerated_own_counter(j) ==
    /\ w[j].pc = "mGen"
    /\ SetW(j, IF j \in queued
               THEN update_and_persist(w[j], [rg |-> w[j].rg + 1], "mUse")
               ELSE [w[j] EXCEPT !.pc = "mUse"])
    /\ UNCHANGED <<qvars, svars, hvars, phase, gvars, env, x>>
ExecSeedGenerated(j) ==
    /\ w[j].pc = "mGen"
    /\ SetW(j, IF j \in queued
               THEN update_and_persist(w[j], [rg |-> job[j].rg + 1], "mUse")
               ELSE [w[j] EXCEPT !.pc = "mUse"])
    /\ UNCHANGED <<qvars, svars, hvars, phase, gvars, env, x>>

\* the job's usage plus this seed's usage is written back; the seed's result returns
ExecSeedUsage(j) ==
    /\ w[j].pc = "mUse"
    /\ LET r == [w[j] EXCEPT !.nres = @ + 1, !.rtok = @ + w[j].etok]
       IN SetW(j, IF j \in queued
                  THEN update_and_persist(r, [tok |-> job[j].tok + w[j].etok], "mCons")
                  ELSE [r EXCEPT !.pc = "mCons"])
    /\ UNCHANGED <<qvars, svars, hvars, phase, gvars, env, x>>

\* after a seed: constraints.is_exceeded(current_job.usage), stop or next seed
ExecSeedConstraint(j) ==
    /\ w[j].pc = "mCons"
    /\ LET name == is_exceeded(PipelineConstraints(w[j].p),
                               UsageOf(j, job[j].tok, job[j].tstart))
       IN SetW(j, IF j \in queued /\ name # "none"
                  THEN update_and_persist(w[j], [status |-> "stopped", tok |-> job[j].tok,
                                                 error |-> name], "mRet")
                  ELSE IF w[j].f < w[j].n
                  THEN [w[j] EXCEPT !.pc = "mSeedChk", !.f = @ + 1]
                  ELSE [w[j] EXCEPT !.pc = "mRet"])
    /\ UNCHANGED <<qvars, svars, hvars, phase, gvars, env, x>>

\* execute() returned the results: records_generated += len(results), the usage
\* of the results is accumulated and both are written to the job
ProcMultReturn_adds_to_mirror(j) ==
    /\ w[j].pc = "mRet"
    /\ SetW(j, Call([w[j] EXCEPT !.rg = @ + w[j].nres, !.tok = @ + w[j].rtok,
                                 !.n = 0, !.f = 0, !.nres = 0, !.rtok = 0,
                                 !.b = 0, !.etok = 0, !.tr = <<>>],
                    [rg |-> w[j].rg + w[j].nres, tok |-> job[j].tok + w[j].rtok,
                     tstart |-> "proc"],
                    "cchk"))
    /\ UNCHANGED <<qvars, svars, hvars, phase, gvars, env, x>>
ProcMultReturn(j) ==
    /\ w[j].pc = "mRet"
    /\ SetW(j, Call([w[j] EXCEPT !.rg = @ + w[j].nres, !.tok = @ + w[j].rtok,
                                 !.n = 0, !.f = 0, !.nres = 0, !.rtok = 0,
                                 !.b = 0, !.etok = 0, !.tr = <<>>],
                    [rg |-> w[j].rg + w[j].nres, tok |-> w[j].tok + w[j].rtok,
                     tstart |-> "proc"],
                    "cchk"))
    /\ UNCHANGED <<qvars, svars, hvars, phase, gvars, env, x>>

\* ------------------------------------------------------ the job system
\* x when no direct execution is modelled; wiped: a DELETE /records request
\* without job_id has removed the records of every job
NoExec == [pc |-> "off", wiped |-> FALSE]

JInit ==
    /\ queued = {}
    /\ job = [j \in JobIds |-> NoJob]
    /\ active = None
    /\ history = [p \in PipeIds |-> <<>>]
    /\ dbRows = {}
    /\ dbJob = [j \in JobIds |-> NoRow]
    /\ dbRecs = [j \in JobIds |-> 0]
    /\ nextId = 1
    /\ genRead = 0
    /\ gen = [j \in JobIds |-> "none"]
    /\ cancelReq = None
    /\ delReq = None
    /\ w = [j \in JobIds |-> W0]
    /\ phase = [j \in JobIds |-> 0]
    /\ cancelRet = [j \in JobIds |-> FALSE]
    /\ chk = [j \in JobIds |-> FALSE]
    /\ blkAfter = [j \in JobIds |-> 0]
    /\ badStart = [j \in JobIds |-> FALSE]

\* Spec: MaxJobs jobs of one execution each
Init ==
    /\ JInit
    /\ env = [jobs |-> MaxJobs, pipes |-> {"normal", "missing"},
              files |-> {<<1>>}, fan |-> 1, track |-> FALSE, tok1 |-> 1, tokn |-> 1]
    /\ x = NoExec

\* SpecJob: one job over the seed files SeedFiles
InitJob ==
    /\ JInit
    /\ env = [jobs |-> 1, pipes |-> {"normal", "mult", "missing"}, files |-> SeedFiles,
              fan |-> MaxFan, track |-> TRUE, tok1 |-> 1, tokn |-> 1]
    /\ x = NoExec

NormalStep(j) ==
    \/ ProcLoad(j) \/ UpdQueue(j) \/ UpdStore(j)
    \/ ProcSeedChk(j) \/ ProcRepChk(j)
    \/ ExecBlockChk(j) \/ ExecBlockBegin(j) \/ ExecBlockEnd(j)
    \/ ProcSave(j) \/ ProcConstraint(j) \/ ProcPostChk(j) \/ ProcFinal(j)

MultStep(j) ==
    \/ ExecMultBegin(j) \/ ExecMultEnd(j) \/ ExecSeedChk(j)
    \/ ExecSeedBlockChk(j) \/ ExecSeedBlockBegin(j) \/ ExecSeedBlockEnd(j)
    \/ ExecSeedFail(j) \/ ExecSeedSave(j) \/ ExecSeedGenerated(j)
    \/ ExecSeedUsage(j) \/ ExecSeedConstraint(j) \/ ProcMultReturn(j)

HandlerStep ==
    \/ GenRow \/ CancelStore \/ DeleteQueue
    \/ \E j \in JobIds : GenCreate(j)

\* the job system without a multiplier pipeline
NextSys ==
    \/ GenCheck
    \/ HandlerStep
    \/ \E j \in JobIds : Cancel(j) \/ DeleteStore(j)
    \/ \E j \in JobIds : NormalStep(j)

Next ==
    \/ NextSys
    \/ DeleteRecords
    \/ \E j \in JobIds : Tick(j) \/ MultStep(j)

Spec == Init /\ [][NextSys]_vars

\* SpecS3: one job of a normal pipeline with max_total_tokens = S3Limit over
\* S3Seeds seeds of one repetition, S3Tokens tokens reported by each execution
InitS3 ==
    /\ JInit
    /\ env = [jobs |-> 1, pipes |-> {"s3"}, files |-> {[i \in 1 .. S3Seeds |-> 1]},
              fan |-> 0, track |-> TRUE, tok1 |-> S3Tokens, tokn |-> 0]
    /\ x = NoExec

SpecS3 == InitS3 /\ [][NextSys]_vars

SpecJob == InitJob /\ [][Next]_vars

\* the scheduling the code guarantees: a started worker thread keeps running,
\* a request handler that has begun returns; new requests need not arrive
FairSpec ==
    /\ Spec
    /\ WF_vars(HandlerStep)
    /\ \A j \in JobIds : WF_vars(NormalStep(j))

\* ------------------------------------- SpecPipe: DELETE /pipelines/{id}
\* the delete_pipeline handler for the one pipeline of SpecPipe: list_jobs of the
\* pipeline; then storage.delete_pipeline, one transaction that deletes the
\* pipeline's records, its job rows and the pipeline row (true when a pipeline
\* row was deleted, else 404), or rolls back and raises; then the loop over the
\* listed jobs, whose "job.id" on a dict of list_jobs raises AttributeError
DeletePipeline ==
    /\ \/ /\ x.pc = "idle"
          /\ x' = [x EXCEPT !.pc = "listed", !.jobs = dbRows]
          /\ UNCHANGED svars
       \/ /\ x.pc = "listed"
          /\ \/ /\ dbRecs' = [j \in JobIds |-> 0]
                /\ dbRows' = {}
                /\ dbJob' = [j \in JobIds |-> NoRow]
                /\ x' = IF x.deleted
                        THEN [x EXCEPT !.pc = "idle", !.ret = "404"]
                        ELSE [x EXCEPT !.pc = "stored", !.deleted = TRUE]
                /\ UNCHANGED nextId
             \/ /\ x' = [x EXCEPT !.pc = "idle", !.ret = "500"]
                /\ UNCHANGED svars
       \/ /\ x.pc = "stored"
          /\ x' = [x EXCEPT !.pc = "idle",
                            !.ret = IF x.jobs = {} THEN "success" ELSE "500"]
          /\ UNCHANGED svars
    /\ UNCHANGED <<qvars, hvars, w, phase, gvars, env>>

\* SpecPipe: the job system with one pipeline, one job and the requests to
\* delete the pipeline
InitPipe ==
    /\ JInit
    /\ env = [jobs |-> 1, pipes |-> {"normal"}, files |-> SeedFiles,
              fan |-> 0, track |-> FALSE, tok1 |-> 1, tokn |-> 1]
    /\ x = [pc |-> "idle", jobs |-> {}, deleted |-> FALSE, ret |-> "none"]

NextPipe == NextSys \/ DeletePipeline

SpecPipe == InitPipe /\ [][NextPipe]_vars

\* ------------------------------------- SpecQueue: the JobQueue called directly
\* x holds the fields of the jobs that the job system leaves out (started_at,
\* completed_at, as readings of the clock x.now), the job a caller holds from a
\* getter (x.held) and the last call (x.op)
\* a getter that hands out the stored dict itself
dict_copy_same(j) ==
    [id |-> j, top |-> "same", status |-> job[j].status, usage |-> "same"]

\* job.copy() of get_job, get_active_job and get_pipeline_history: a new dict
\* with the values of the stored one, the nested "usage" dict being the same object
dict_copy(j) ==
    [id |-> j, top |-> "copy", status |-> job[j].status, usage |-> "same"]

\* JobQueue.get_pipeline_history(p), as the ids of the jobs it returns in order
get_pipeline_history(p) == SelectSeq(history[p], LAMBDA j : j \in queued)

\* create_job(job_id, pipeline_id, ...) with the next fresh id
QCreate(p) ==
    /\ x.next <= MaxJobs /\ x.now < MaxClock
    /\ create_job(x.next, p)
    /\ x' = IF active = None
            THEN [x EXCEPT !.next = @ + 1, !.now = @ + 1,
                           !.started[x.next] = x.now, !.completed[x.next] = None,
                           !.op = [name |-> "create", j |-> x.next]]
            ELSE [x EXCEPT !.op = [name |-> "create", j |-> None]]
    /\ UNCHANGED <<svars, hvars, w, phase, gvars, env>>

\* update_job(j, **upd), upd holding a status and possibly a completed_at
QUpdate(j, upd) ==
    /\ x.now < MaxClock
    /\ update_job(j, upd)
    /\ x' = IF j \notin queued
            THEN [x EXCEPT !.op = [name |-> "update", j |-> None]]
            ELSE [x EXCEPT
                    !.now = IF upd.status \in TERMINAL_STATUSES THEN @ + 1 ELSE @,
                    !.completed[j] =
                        IF "completed_at" \in DOMAIN upd THEN upd.completed_at
                        ELSE IF upd.status \in TERMINAL_STATUSES THEN x.now
                        ELSE @,
                    !.op = [name |-> "update", j |-> j]]
    /\ UNCHANGED <<svars, hvars, w, phase, gvars, env>>

\* cancel_job(j)
QCancel(j) ==
    /\ x.now < MaxClock
    /\ IF j \in queued
       THEN /\ cancel_job(j)
            /\ x' = [x EXCEPT !.now = @ + 1, !.completed[j] = x.now,
                              !.op = [name |-> "cancel", j |-> j]]
       ELSE /\ UNCHANGED qvars
            /\ x' = [x EXCEPT !.op = [name |-> "cancel", j |-> None]]
    /\ UNCHANGED <<svars, hvars, w, phase, gvars, env>>

\* delete_job(j)
QDelete(j) ==
    /\ delete_job(j)
    /\ x' = [x EXCEPT !.completed[j] = IF j \in queued THEN None ELSE @,
                      !.started[j] = IF j \in queued THEN None ELSE @,
                      !.op = [name |-> "delete", j |-> IF j \in queued THEN j ELSE None]]
    /\ UNCHANGED <<svars, hvars, w, phase, gvars, env>>

\* get_job(j), get_active_job() or get_pipeline_history(p): the caller keeps one
\* of the jobs returned, each a job.copy() of a job of the queue
QGet ==
    /\ \E j \in queued :
          x' = [x EXCEPT !.held = dict_copy(j), !.op = [name |-> "get", j |-> j]]
    /\ UNCHANGED <<jvars, env>>

\* the caller assigns to a field of the job it holds (status = failed), or adds
\* to a counter of its usage: a write to a dict the queue also holds is a write to the queue's job
QMutate ==
    /\ x.held.id # None
    /\ \/ /\ x.held.status # "failed"
          /\ x' = [x EXCEPT !.held.status = "failed",
                            !.op = [name |-> "mutate", j |-> x.held.id]]
          /\ job' = IF x.held.top = "same" /\ x.held.id \in queued
                    THEN [job EXCEPT ![x.held.id].status = "failed"] ELSE job
       \/ /\ job[x.held.id].tok < MaxUse
          /\ x' = [x EXCEPT !.op = [name |-> "mutate", j |-> x.held.id]]
          /\ job' = IF x.held.usage = "same" /\ x.held.id \in queued
                    THEN [job EXCEPT ![x.held.id].tok = @ + 1] ELSE job
    /\ UNCHANGED <<queued, active, history, svars, hvars, w, phase, gvars, env>>

InitQueue ==
    /\ JInit
    /\ env = [jobs |-> 0, pipes |-> {}, files |-> {}, fan |-> 0, track |-> FALSE, tok1 |-> 1, tokn |-> 1]
    /\ x = [pc |-> "queue", next |-> 1, now |-> 1,
            started |-> [j \in JobIds |-> None], completed |-> [j \in JobIds |-> None],
            held |-> [id |-> None, top |-> "none", status |-> "none", usage |-> "none"],
            op |-> [name |-> "none", j |-> None]]

NextQueue ==
    \/ \E p \in {"normal", "mult"} : QCreate(p)
    \/ \E j \in JobIds, st \in Status :
          \/ QUpdate(j, [status |-> st])
          \/ \E c \in {None, 1} : QUpdate(j, [status |-> st, completed_at |-> c])
    \/ \E j \in JobIds : QCancel(j) \/ QDelete(j)
    \/ QGet
    \/ QMutate

SpecQueue == InitQueue /\ [][NextQueue]_vars

\* ------------------------------------------- SpecExec: one execution
\* Keys of accumulated_state and of block outputs; a value is the index of the
\* block that wrote it (0: the initial data). "_usage" is kept apart as x.u.
Keys == 1 .. MaxKeys
UsageKinds == {"absent", "valid", "invalid", "not_mapping"}

\* block.outputs: the declared keys, star when "*" is among them
Outputs == [star : BOOLEAN, keys : SUBSET Keys]

\* the mappings a block of index i may return
Mappings(i) == UNION {[K -> {i}] : K \in SUBSET Keys}

\* dict.update
Merge(d, r) ==
    [k \in DOMAIN d \cup DOMAIN r |-> IF k \in DOMAIN r THEN r[k] ELSE d[k]]

\* Pipeline._validate_output: TRUE when it returns, FALSE when it raises ValidationError
validate_output(b, r) == b.star \/ DOMAIN r \subseteq b.keys

\* Usage(**result.pop("_usage")): "ok" (counters added), "ValueError" (pydantic
\* rejects a counter: caught, discarded) or "TypeError" (the value is no mapping
\* with string keys: not caught by "except (ValueError, KeyError)")
ParseUsage(u) ==
    IF u = "valid" THEN "ok" ELSE IF u = "invalid" THEN "ValueError" ELSE "TypeError"

\* TraceEntry of a block that returned / of a block that failed inside a seed
Entry_input_after_update(b, in, out, acc) ==
    [block |-> b, input |-> acc, output |-> out, accumulated_state |-> acc, error |-> "None"]
Entry(b, in, out, acc) ==
    [block |-> b, input |-> in, output |-> out, accumulated_state |-> acc, error |-> "None"]
ErrorEntry(b, in, e) ==
    [block |-> b, input |-> in, output |-> "None", accumulated_state |-> "None", error |-> e]

\* the pre-block and pre-seed check: job_id > 0, a queue, and the mirror says cancelled
SeesCancel == x.attached /\ x.cancelled

\* Pipeline.execute: the context is created; the first block decides the path
ExecStart ==
    /\ x.pc = "new"
    /\ x' = [x EXCEPT !.pc = IF x.mode = "mult" THEN "mcall" ELSE "call",
                      !.i = 1, !.state = x.initial_data, !.trace = <<>>, !.usage = 0]
    /\ UNCHANGED <<jvars, env>>

\* JobQueue.cancel_job on the job the execution is attached to
ExecCancel ==
    /\ x.pc \in {"call", "ret", "mcall", "seed", "scall", "sret", "send"}
    /\ x.attached /\ ~x.cancelled
    /\ x' = [x EXCEPT !.cancelled = TRUE]
    /\ UNCHANGED <<jvars, env>>

\* _execute_normal_pipeline, one loop iteration up to the block's return: the
\* pre-block check (the partial ExecutionResult), then block.execute(context)
\* returns a mapping or raises
BlockExecute_swallows_error ==
    /\ x.pc = "call"
    /\ \/ /\ SeesCancel
          /\ x' = [x EXCEPT !.pc = "done"]
       \/ /\ ~SeesCancel
          /\ \/ \E r \in Mappings(x.i), u \in UsageKinds :
                   x' = [x EXCEPT !.pc = "ret", !.r = r, !.u = u]
             \/ x' = [x EXCEPT !.pc = "done"]
    /\ UNCHANGED <<jvars, env>>
BlockExecute ==
    /\ x.pc = "call"
    /\ \/ /\ SeesCancel
          /\ x' = [x EXCEPT !.pc = "done"]
       \/ /\ ~SeesCancel
          /\ \/ \E r \in Mappings(x.i), u \in UsageKinds :
                   x' = [x EXCEPT !.pc = "ret", !.r = r, !.u = u]
             \/ \E e \in {"ValidationError", "BlockExecutionError"} :
                   \* "except ValidationError: raise", "except Exception: raise BlockExecutionError"
                   x' = [x EXCEPT !.pc = "raised", !.err = e]
    /\ UNCHANGED <<jvars, env>>

\* the rest of the try body: usage extraction, _validate_output, context.update,
\* the trace entry; then the next block or the ExecutionResult
BlockReturn ==
    /\ x.pc = "ret"
    /\ x' = IF x.u # "absent" /\ ParseUsage(x.u) = "TypeError"
            THEN [x EXCEPT !.pc = "raised", !.err = "BlockExecutionError"]
            ELSE IF ~validate_output(x.outputs[x.i], x.r)
            THEN [x EXCEPT !.pc = "raised", !.err = "ValidationError"]
            ELSE [x EXCEPT
                    !.usage = IF x.u # "absent" /\ ParseUsage(x.u) = "ok" THEN @ + 1 ELSE @,
                    !.state = Merge(@, x.r),
                    !.trace = Append(@, Entry(x.i, x.state, x.r, Merge(x.state, x.r))),
                    !.i = IF @ < NBlocks THEN @ + 1 ELSE @,
                    !.pc = IF x.i < NBlocks THEN "call" ELSE "done"]
    /\ UNCHANGED <<jvars, env>>

\* _execute_multiplier_pipeline: first_block.execute(context) returns the seeds
\* or raises (nothing catches it)
MultExecute ==
    /\ x.pc = "mcall"
    /\ \/ \E n \in 0 .. MaxFan : \E sd \in [1 .. n -> Mappings(1)] :
             x' = [x EXCEPT !.pc = "seed", !.seeds = sd, !.f = 0, !.results = <<>>]
       \/ x' = [x EXCEPT !.pc = "raised", !.err = "Exception"]
    /\ UNCHANGED <<jvars, env>>

\* the head of the seed loop: the end of the list, the pre-seed check (break),
\* or _process_single_seed creates the context of the next seed
SeedNext ==
    /\ x.pc = "seed"
    /\ x' = IF x.f = Len(x.seeds) \/ SeesCancel
            THEN [x EXCEPT !.pc = "done"]
            ELSE [x EXCEPT !.pc = "scall", !.f = @ + 1, !.i = 2,
                           !.state = x.seeds[x.f + 1], !.trace = <<>>, !.usage = 0]
    /\ UNCHANGED <<jvars, env>>

\* _process_single_seed, one loop iteration up to the block's return: the
\* pre-block check (returns None), then _execute_block_in_seed: block.execute
\* returns a mapping, or raises and the error entry is appended (returns None)
SeedBlockExecute_returns_failed ==
    /\ x.pc = "scall"
    /\ \/ /\ SeesCancel
          /\ x' = [x EXCEPT !.pc = "send"]
       \/ /\ ~SeesCancel
          /\ \/ \E r \in Mappings(x.i), u \in UsageKinds :
                   x' = [x EXCEPT !.pc = "sret", !.r = r, !.u = u]
             \/ LET tr == Append(x.trace, ErrorEntry(x.i, x.state, "Exception"))
                IN x' = [x EXCEPT !.pc = "send", !.err = "Exception", !.trace = tr,
                                  !.results = Append(@, [seed |-> x.f, result |-> x.state,
                                                         trace |-> tr])]
    /\ UNCHANGED <<jvars, env>>
SeedBlockExecute ==
    /\ x.pc = "scall"
    /\ \/ /\ SeesCancel
          /\ x' = [x EXCEPT !.pc = "send"]
       \/ /\ ~SeesCancel
          /\ \/ \E r \in Mappings(x.i), u \in UsageKinds :
                   x' = [x EXCEPT !.pc = "sret", !.r = r, !.u = u]
             \/ x' = [x EXCEPT !.pc = "send", !.err = "Exception",
                               !.trace = Append(@, ErrorEntry(x.i, x.state, "Exception"))]
    /\ UNCHANGED <<jvars, env>>

\* the rest of the try body of _execute_block_in_seed; after the last block
\* _process_single_seed returns the ExecutionResult and the loop appends it
SeedBlockReturn ==
    /\ x.pc = "sret"
    /\ x' = IF x.u # "absent" /\ ParseUsage(x.u) = "TypeError"
            THEN [x EXCEPT !.pc = "send", !.err = "TypeError",
                           !.trace = Append(@, ErrorEntry(x.i, x.state, "TypeError"))]
            ELSE IF ~validate_output(x.outputs[x.i], x.r)
            THEN [x EXCEPT !.pc = "send", !.err = "ValidationError",
                           !.trace = Append(@, ErrorEntry(x.i, x.state, "ValidationError"))]
            ELSE LET st == Merge(x.state, x.r)
                     tr == Append(x.trace, Entry(x.i, x.state, x.r, st))
                 IN [x EXCEPT
                       !.usage = IF x.u # "absent" /\ ParseUsage(x.u) = "ok" THEN @ + 1 ELSE @,
                       !.state = st,
                       !.trace = tr,
                       !.i = IF @ < NBlocks THEN @ + 1 ELSE @,
                       !.pc = IF x.i < NBlocks THEN "scall" ELSE "send",
                       !.results = IF x.i < NBlocks THEN @
                                   ELSE Append(@, [seed |-> x.f, result |-> st, trace |-> tr])]
    /\ UNCHANGED <<jvars, env>>

\* after _process_single_seed: the constraint check on the attached job's
\* cumulative usage (kept by the queue, any outcome here) stops the loop or not
SeedEnd ==
    /\ x.pc = "send"
    /\ \E stop \in IF x.attached THEN BOOLEAN ELSE {FALSE} :
          x' = [x EXCEPT !.pc = IF stop THEN "done" ELSE "seed"]
    /\ UNCHANGED <<jvars, env>>

\* SpecExec: a pipeline of NBlocks blocks with any declared outputs, any initial
\* data, with or without a multiplier first, called directly or for a job
InitExec ==
    /\ JInit
    /\ env = [jobs |-> 0, pipes |-> {}, files |-> {}, fan |-> 0, track |-> FALSE, tok1 |-> 1, tokn |-> 1]
    /\ \E o \in [1 .. NBlocks -> Outputs], d \in Mappings(0),
          m \in {"normal", "mult"}, a \in BOOLEAN :
          /\ m = "mult" => o[1] = [star |-> TRUE, keys |-> {}]
          /\ x = [pc |-> "new", mode |-> m, attached |-> a, cancelled |-> FALSE,
                  outputs |-> o, initial_data |-> d, i |-> 0,
                  state |-> d, trace |-> <<>>, usage |-> 0,
                  r |-> <<>>, u |-> "absent", err |-> "none",
                  seeds |-> <<>>, f |-> 0, results |-> <<>>]

NextExec ==
    \/ ExecStart \/ ExecCancel \/ BlockExecute \/ BlockReturn
    \/ MultExecute \/ SeedNext \/ SeedBlockExecute \/ SeedBlockReturn \/ SeedEnd

SpecExec == InitExec /\ [][NextExec]_vars

\* ------------------------------------------------ SpecBuild: Pipeline(name, blocks)
\* a block instance as construction sees it: getattr(block, "is_multiplier", False)
BlockKinds == {"plain", "mult"}
BlockLists == UNION {[1 .. n -> BlockKinds] : n \in 0 .. MaxPipeLen}

\* the list comprehension of _validate_multiplier_placement (positions from 1)
multiplier_indices(bs) == {i \in 1 .. Len(bs) : bs[i] = "mult"}

\* Pipeline._validate_multiplier_placement: "ok" when it returns, else what it raises
validate_multiplier_placement_first_only(bs) ==
    LET idx == multiplier_indices(bs)
    IN IF idx # {} /\ (CHOOSE i \in idx : \A k \in idx : i <= k) # 1
       THEN "ValidationError" ELSE "ok"
validate_multiplier_placement(bs) ==
    LET idx == multiplier_indices(bs)
    IN IF Cardinality(idx) > 1 THEN "ValidationError"
       ELSE IF idx # {} /\ (CHOOSE i \in idx : \A k \in idx : i <= k) # 1
       THEN "ValidationError" ELSE "ok"

\* Pipeline.__init__ on a list of registered block types: the blocks are
\* instantiated, then the placement is validated
Construct ==
    /\ x.pc = "build"
    /\ x' = [x EXCEPT !.pc = "built", !.res = validate_multiplier_placement(x.blocks)]
    /\ UNCHANGED <<jvars, env>>

InitBuild ==
    /\ JInit
    /\ env = [jobs |-> 0, pipes |-> {}, files |-> {}, fan |-> 0, track |-> FALSE, tok1 |-> 1, tokn |-> 1]
    /\ \E bs \in BlockLists : x = [pc |-> "build", blocks |-> bs, res |-> "none"]

NextBuild == Construct

SpecBuild == InitBuild /\ [][NextBuild]_vars

\* ------------------------------------------- SpecLimits: Constraints.is_exceeded
\* Constraints objects (every field -1 or a limit) and Usage objects
Limits == Unlimited .. MaxLimit
ConstraintsSet ==
    [max_total_tokens : Limits, max_total_input_tokens : Limits,
     max_total_output_tokens : Limits, max_total_cached_tokens : Limits,
     max_total_execution_time : Limits]
UsageSet ==
    [input_tokens : 0 .. MaxUse, output_tokens : 0 .. MaxUse,
     cached_tokens : 0 .. MaxUse, elapsed_time : 0 .. MaxUse]

\* constraints.is_exceeded(usage) is called
CheckLimits ==
    /\ x.pc = "limits"
    /\ x' = [x EXCEPT !.pc = "checked", !.out = is_exceeded(x.c, x.u)]
    /\ UNCHANGED <<jvars, env>>

InitLimits ==
    /\ JInit
    /\ env = [jobs |-> 0, pipes |-> {}, files |-> {}, fan |-> 0, track |-> FALSE, tok1 |-> 1, tokn |-> 1]
    /\ \E c \in ConstraintsSet, u \in UsageSet :
          x = [pc |-> "limits", c |-> c, u |-> u, out |-> "unset"]

NextLimits == CheckLimits

SpecLimits == InitLimits /\ [][NextLimits]_vars

\* ---------------------------------- SpecLib: components with their own state
\* x.c names the component a behaviour of SpecLib is about
\*
\* "models": the llm_models and embedding_models tables
\* (x.tab: the rows of each table, names in 1 .. MaxModels)
\* LLMModelConfig(**row) / EmbeddingModelConfig(**row): a field the row lacks
\* takes the entity's default, is_default = False
ModelConfig(row) ==
    [name |-> row.name,
     is_default |-> IF "is_default" \in DOMAIN row THEN row.is_default ELSE FALSE]

\* save_llm_model / save_embedding_model: upsert by name of the columns name,
\* provider, endpoint, api_key, model_name (dimensions); is_default is no column
save_model(k, config) ==
    /\ x.c = "models"
    /\ x' = [x EXCEPT !.tab[k] = {r \in @ : r.name # config.name}
                                    \cup {[name |-> config.name]},
                      !.ret = "saved"]
    /\ UNCHANGED <<jvars, env>>

\* delete_llm_model / delete_embedding_model: DELETE ... WHERE name = ?
delete_model(k, n) ==
    /\ x.c = "models"
    /\ x' = [x EXCEPT !.tab[k] = {r \in @ : r.name # n},
                      !.ret = IF \E r \in x.tab[k] : r.name = n
                              THEN "deleted" ELSE "404"]
    /\ UNCHANGED <<jvars, env>>

\* PUT /llm-models/{name}/default: LLMConfigManager has no set_default_llm_model
\* (nor set_default_embedding_model), the AttributeError is answered with 400
set_default_model(k, n) ==
    /\ x.c = "models"
    /\ x' = [x EXCEPT !.ret = "400"]
    /\ UNCHANGED <<jvars, env>>

\* "progress": the progress fields one worker writes to its job (x.job), for a
\* seed file x.seeds whose seeds hold any JSON value as repetitions
\*
\* repetitions = seed.get("repetitions", 1), 1 unless it is an int
Repetitions(seed) == IF seed.int THEN seed.v ELSE 1

\* total_executions = sum(...) over seeds_data
RECURSIVE total_executions(_)
total_executions(seeds) ==
    IF seeds = <<>> THEN 0
    ELSE Repetitions(Head(seeds)) + total_executions(Tail(seeds))

\* the head of the loops "for seed in seeds_data: for i in range(repetitions)":
\* execution_index += 1, progress = execution_index / total_executions (a
\* ZeroDivisionError is a failed execution), _update_job_status(current_seed,
\* total_seeds, progress)
ProgRepetition ==
    /\ x.c = "progress" /\ x.pc = "rep"
    /\ x' = IF x.s > Len(x.seeds) THEN [x EXCEPT !.pc = "done"]
            ELSE IF x.i >= Repetitions(x.seeds[x.s])
            THEN [x EXCEPT !.s = @ + 1, !.i = 0]
            ELSE IF total_executions(x.seeds) = 0
            THEN [x EXCEPT !.i = @ + 1, !.ei = @ + 1, !.prf = @ + 1,
                           !.job.rf = x.prf + 1]
            ELSE [x EXCEPT !.i = @ + 1, !.ei = @ + 1, !.pc = "exec",
                           !.job.current_seed = x.ei + 1,
                           !.job.total_seeds = total_executions(x.seeds),
                           !.job.progress = [n |-> x.ei + 1,
                                             d |-> total_executions(x.seeds)]]
    /\ UNCHANGED <<jvars, env>>

\* the execution of a normal pipeline: a record and records_generated += 1, or
\* "except Exception" and records_failed += 1
ProgExecute ==
    /\ x.c = "progress" /\ x.pc = "exec" /\ x.mode = "normal"
    /\ \/ x' = [x EXCEPT !.pc = "rep", !.prg = @ + 1, !.job.rg = x.prg + 1]
       \/ x' = [x EXCEPT !.pc = "rep", !.prf = @ + 1, !.job.rf = x.prf + 1]
    /\ UNCHANGED <<jvars, env>>

\* _execute_multiplier_pipeline: the first block returns n seeds and
\* _update_job_progress(total_seeds=len(seeds), current_seed=0), or it raises
ProgMultiplier ==
    /\ x.c = "progress" /\ x.pc = "exec" /\ x.mode = "mult"
    /\ \/ \E n \in 0 .. MaxFan :
             x' = [x EXCEPT !.pc = "seed", !.n = n, !.k = 0, !.res = 0,
                            !.job.total_seeds = n, !.job.current_seed = 0]
       \/ x' = [x EXCEPT !.pc = "rep", !.prf = @ + 1, !.job.rf = x.prf + 1]
    /\ UNCHANGED <<jvars, env>>

\* _process_single_seed of the next generated seed: records_generated or
\* records_failed of the job + 1, then progress = (seed_idx + 1) / total_seeds;
\* after the last one the processor adds len(results) to its own count and
\* writes that as records_generated
ProgSeed ==
    /\ x.c = "progress" /\ x.pc = "seed"
    /\ IF x.k < x.n
       THEN \E ok \in BOOLEAN :
               x' = [x EXCEPT !.k = @ + 1,
                              !.res = IF ok THEN @ + 1 ELSE @,
                              !.job.rg = IF ok THEN @ + 1 ELSE @,
                              !.job.rf = IF ok THEN @ ELSE @ + 1,
                              !.job.current_seed = x.k + 1,
                              !.job.progress = [n |-> x.k + 1, d |-> x.n]]
       ELSE x' = [x EXCEPT !.pc = "rep", !.prg = @ + x.res, !.job.rg = x.prg + x.res]
    /\ UNCHANGED <<jvars, env>>

\* "registry": the block registry; x.trees[d] are the names of the block
\* classes the modules of directory d define, x.entries[n] the source of the
\* entry of name n ("none": no entry)
\*
\* _discover_blocks: one directory of _SOURCE_MAP after the other, in its order
\* builtin, custom, user; every class found is stored under its name
Discover ==
    /\ x.c = "registry" /\ x.i <= 3
    /\ LET source == <<"builtin", "custom", "user">>[x.i]
       IN x' = [x EXCEPT !.i = @ + 1,
                         !.entries = [n \in DOMAIN @ |->
                                        IF n \in x.trees[source] THEN source ELSE @[n]]]
    /\ UNCHANGED <<jvars, env>>

\* register(block_class, source) on the discovered registry
register(n, source) ==
    /\ x.c = "registry" /\ x.i > 3
    /\ x' = [x EXCEPT !.entries[n] = source]
    /\ UNCHANGED <<jvars, env>>

\* unregister(block_type)
unregister(n) ==
    /\ x.c = "registry" /\ x.i > 3
    /\ x' = [x EXCEPT !.entries[n] = "none"]
    /\ UNCHANGED <<jvars, env>>

\* "debounce": a DebouncedHandler and one burst of events per path. x.h is the
\* observer thread that delivers the events one after the other, x.timers the
\* threading.Timer objects created (st: waiting, cancelled, fired = the wait
\* timed out and finished was not set, done), x.pending the dict _pending
\* (0: no key), x.cb the callbacks made for each path
\*
\* on_created / on_modified / on_deleted for a file: an event of the burst
\* arrives less than debounce_ms after the one before it, so the timer that one
\* started has not timed out when the call begins
on_modified(p) ==
    /\ x.c = "debounce" /\ x.h.pc = "idle" /\ Len(x.timers) < MaxEvents
    /\ LET ts == {t \in 1 .. Len(x.timers) : x.timers[t].p = p}
       IN ts # {} => x.timers[CHOOSE t \in ts : \A u \in ts : u <= t].st = "waiting"
    /\ x' = [x EXCEPT !.h = [pc |-> "called", p |-> p]]
    /\ UNCHANGED <<jvars, env>>

\* _schedule_callback under the lock: cancel() of the pending timer, which only
\* sets finished, then a new timer is stored and started
_schedule_callback ==
    /\ x.c = "debounce" /\ x.h.pc = "called"
    /\ LET p == x.h.p
           old == x.pending[p]
           cancelled == IF old # 0 /\ x.timers[old].st = "waiting"
                        THEN [x.timers EXCEPT ![old].st = "cancelled"]
                        ELSE x.timers
       IN x' = [x EXCEPT !.h = [pc |-> "idle", p |-> 0],
                         !.timers = Append(cancelled, [p |-> p, st |-> "waiting"]),
                         !.pending[p] = Len(x.timers) + 1]
    /\ UNCHANGED <<jvars, env>>

\* Timer.run: finished.wait(interval) times out and finished is not set
TimerRun(t) ==
    /\ x.c = "debounce" /\ t <= Len(x.timers) /\ x.timers[t].st = "waiting"
    /\ x' = [x EXCEPT !.timers[t].st = "fired"]
    /\ UNCHANGED <<jvars, env>>

\* _execute_callback of timer t: _pending.pop(str(path)) under the lock, then
\* the callback
_execute_callback(t) ==
    /\ x.c = "debounce" /\ t <= Len(x.timers) /\ x.timers[t].st = "fired"
    /\ x' = [x EXCEPT !.timers[t].st = "done",
                      !.pending[x.timers[t].p] = 0,
                      !.cb[x.timers[t].p] = @ + 1]
    /\ UNCHANGED <<jvars, env>>

\* "tracker": the UsageTracker called from MaxThreads threads. x.usage is the
\* dict _usage (has: the key is present; v: input_tokens, the other two counters
\* are added in the same statements), x.lock the holder of _lock (0: free),
\* x.th the position of each thread in its call, x.rec[id] the deltas callbacks
\* have added for id and x.ret[id] the counts get_and_clear has returned for it
\*
\* "with cls._lock" without mutual exclusion
LockFree_always == TRUE

\* "with cls._lock": entered only when no thread holds the lock
LockFree == x.lock = 0

\* callback for a response with usage d and trace id id: under the lock,
\* _usage[id][...] += d, a read of the (default zero) entry and a store
callback(t, id) ==
    /\ x.c = "tracker"
    /\ \/ /\ x.th[t].pc = "idle" /\ x.calls < MaxCalls /\ LockFree
          /\ x' = [x EXCEPT !.lock = t, !.calls = @ + 1,
                            !.th[t] = [pc |-> "cbRead", id |-> id, tmp |-> 0]]
       \/ /\ x.th[t].pc = "cbRead" /\ x.th[t].id = id
          /\ x' = [x EXCEPT !.th[t].pc = "cbStore",
                            !.th[t].tmp = IF x.usage[id].has THEN x.usage[id].v ELSE 0]
       \/ /\ x.th[t].pc = "cbStore" /\ x.th[t].id = id
          /\ x' = [x EXCEPT !.usage[id] = [has |-> TRUE, v |-> x.th[t].tmp + 1],
                            !.rec[id] = @ + 1,
                            !.lock = 0,
                            !.th[t] = [pc |-> "idle", id |-> 0, tmp |-> 0]]
    /\ UNCHANGED <<jvars, env>>

\* get_and_clear(id): under the lock, dict(_usage.pop(id, zeros)); the copy is
\* returned after the lock is released
get_and_clear(t, id) ==
    /\ x.c = "tracker"
    /\ \/ /\ x.th[t].pc = "idle" /\ x.calls < MaxCalls /\ LockFree
          /\ x' = [x EXCEPT !.lock = t, !.calls = @ + 1,
                            !.th[t] = [pc |-> "gcPop", id |-> id, tmp |-> 0]]
       \/ /\ x.th[t].pc = "gcPop" /\ x.th[t].id = id
          /\ x' = [x EXCEPT !.th[t].pc = "gcReturn",
                            !.th[t].tmp = IF x.usage[id].has THEN x.usage[id].v ELSE 0,
                            !.usage[id] = [has |-> FALSE, v |-> 0]]
       \/ /\ x.th[t].pc = "gcReturn" /\ x.th[t].id = id
          /\ x' = [x EXCEPT !.ret[id] = @ + x.th[t].tmp,
                            !.lock = 0,
                            !.th[t] = [pc |-> "idle", id |-> 0, tmp |-> 0]]
    /\ UNCHANGED <<jvars, env>>

\* "mirror": the JobQueue over MaxMirror jobs created one after the other, each
\* ended by its worker before the next is admitted. x.pipe[j] is the
\* pipeline_id of _jobs[j] (the keys of _jobs are 1 .. Len(x.pipe)), x.status[j]
\* its status, x.hist the deques of _job_history, x.active the slot
\*
\* JobQueue.create_job with the next job id
LibCreateJob(p) ==
    /\ x.c = "mirror" /\ Len(x.pipe) < MaxMirror
    /\ x' = IF x.active # None THEN x
            ELSE [x EXCEPT !.pipe = Append(@, p),
                           !.status = Append(@, "running"),
                           !.active = Len(x.pipe) + 1,
                           !.hist[p] = Append10(@, Len(x.pipe) + 1)]
    /\ UNCHANGED <<jvars, env>>

\* JobQueue.update_job(j, status = completed) by the worker of the active job
LibUpdateJob ==
    /\ x.c = "mirror" /\ x.active # None
    /\ x' = [x EXCEPT !.status[x.active] = "completed", !.active = None]
    /\ UNCHANGED <<jvars, env>>

\* "trace": the trace ids of the executions of one job. x.data[i] is the value
\* the initial data of the i-th execution (a repetition of a seed, or a fan-out
\* seed of a multiplier) holds under the key "trace_id": 0 when it has no such
\* key, a negative number otherwise; uuid4() returns the positive numbers in
\* turn (x.uuid: the last one); x.ids[i] is the trace_id of the i-th context
\*
\* _execute_normal_pipeline: BlockExecutionContext(trace_id =
\* initial_data.get("trace_id", str(uuid.uuid4())), ...)
NormalContext ==
    /\ x.c = "trace" /\ x.mode = "normal" /\ Len(x.ids) < Len(x.data)
    /\ LET d == x.data[Len(x.ids) + 1]
       IN x' = [x EXCEPT !.uuid = @ + 1,
                         !.ids = Append(@, IF d # 0 THEN d ELSE x.uuid + 1)]
    /\ UNCHANGED <<jvars, env>>

\* _process_single_seed: BlockExecutionContext(trace_id = str(uuid.uuid4()), ...)
SeedContext ==
    /\ x.c = "trace" /\ x.mode = "mult" /\ Len(x.ids) < Len(x.data)
    /\ x' = [x EXCEPT !.uuid = @ + 1, !.ids = Append(@, x.uuid + 1)]
    /\ UNCHANGED <<jvars, env>>

\* "record": one row of table records and MaxCallers PUT /records/{id} requests
\* with accumulated_state fields. x.exists: the row is there; x.trace: its
\* trace column (each entry with input, output and accumulated_state as
\* mappings over Keys; caller t writes the value t); x.status and x.stamp
\* (updated_at, as the caller that wrote it last); x.call[t]: the locals of
\* caller t
\*
\* update_record_accumulated_state up to the UPDATE: get_by_id, False when there
\* is no record or no trace, else the patch is merged into the
\* accumulated_state of the last entry of the fetched trace
RecFetch(t, patch, std) ==
    /\ x.c = "record" /\ x.call[t].pc = "idle"
    /\ x' = IF ~x.exists \/ x.trace = <<>>
            THEN [x EXCEPT !.call[t] = [@ EXCEPT !.pc = "done", !.ret = "False",
                                                 !.patch = patch]]
            ELSE [x EXCEPT !.call[t] =
                    [pc |-> "fetched", patch |-> patch, std |-> std, ret |-> "none",
                     trace |-> [x.trace EXCEPT ![Len(x.trace)].accumulated_state =
                                                  Merge(@, patch)]]]
    /\ UNCHANGED <<jvars, env>>

\* the UPDATE of update_record_accumulated_state: the whole trace as fetched
\* and patched, the standard fields supplied, updated_at; rowcount > 0
RecWrite(t) ==
    /\ x.c = "record" /\ x.call[t].pc = "fetched"
    /\ x' = IF x.exists
            THEN [x EXCEPT !.trace = x.call[t].trace,
                           !.status = IF x.call[t].std = "none" THEN @ ELSE x.call[t].std,
                           !.stamp = t,
                           !.call[t] = [@ EXCEPT !.pc = "done", !.ret = "True"]]
            ELSE [x EXCEPT !.call[t] = [@ EXCEPT !.pc = "done", !.ret = "False"]]
    /\ UNCHANGED <<jvars, env>>

\* "templates": the template registry and the watched user templates
\* directory. The paths are user_templates/<p>.yaml for p in 1 .. MaxPaths;
\* x.dir[p] is the content of the file (0: no such file), x.builtin the ids
\* the builtin directory holds, x.tpl[p] the entry of _templates and _sources
\* under the id p (source "none": no entry; builtin content is 0), x.pending[p]
\* the event the debounced handler holds for the path
\*
\* TemplateRegistry._load_user_templates: every *.yaml of the user directory
\* whose id is not in _templates is stored with source user
_load_user_templates(tpl, dir) ==
    [p \in DOMAIN tpl |->
        IF dir[p] # 0 /\ tpl[p].source = "none"
        THEN [source |-> "user", content |-> dir[p]]
        ELSE tpl[p]]

\* a file of the user directory is created, modified or deleted and the
\* observer hands the event to on_created / on_modified / on_deleted; the
\* latest event of a path replaces the one that waits
TemplateFileEvent(p, event_type, v) ==
    /\ x.c = "templates"
    /\ (event_type = "created") = (x.dir[p] = 0)
    /\ x' = [x EXCEPT !.dir[p] = IF event_type = "deleted" THEN 0 ELSE v,
                      !.pending[p] = event_type]
    /\ UNCHANGED <<jvars, env>>

\* TemplateFileHandler._handle_change(path, event_type) when the timer of the
\* path fires: unregister(path.stem) on deleted, else _load_user_templates
TemplateHandleChange(p) ==
    /\ x.c = "templates" /\ x.pending[p] # "none"
    /\ x' = [x EXCEPT !.pending[p] = "none",
                      !.tpl = IF x.pending[p] = "deleted"
                              THEN [@ EXCEPT ![p] = [source |-> "none", content |-> 0]]
                              ELSE _load_user_templates(@, x.dir)]
    /\ UNCHANGED <<jvars, env>>

InitLib ==
    /\ JInit
    /\ env = [jobs |-> 0, pipes |-> {}, files |-> {}, fan |-> 0, track |-> FALSE, tok1 |-> 1, tokn |-> 1]
    /\ x \in {[c |-> "models", tab |-> [k \in {"llm", "embedding"} |-> {}],
                ret |-> "none"]}
          \cup {[c |-> "progress", pc |-> "rep", mode |-> m, seeds |-> sf,
                 s |-> 1, i |-> 0, ei |-> 0, prg |-> 0, prf |-> 0,
                 n |-> 0, k |-> 0, res |-> 0,
                 job |-> [total_seeds |-> total_executions(sf), current_seed |-> 0,
                          progress |-> [n |-> 0, d |-> 1], rg |-> 0, rf |-> 0]] :
                    m \in {"normal", "mult"},
                    sf \in UNION {[1 .. len ->
                                     [int : {TRUE}, v : -1 .. MaxReps]
                                        \cup {[int |-> FALSE, v |-> 0]}] :
                                  len \in 1 .. MaxSeeds}}
          \cup {[c |-> "debounce", h |-> [pc |-> "idle", p |-> 0], timers |-> <<>>,
                 pending |-> [p \in 1 .. MaxPaths |-> 0],
                 cb |-> [p \in 1 .. MaxPaths |-> 0]]}
          \cup {[c |-> "tracker", lock |-> 0, calls |-> 0,
                 usage |-> [id \in 1 .. MaxTraces |-> [has |-> FALSE, v |-> 0]],
                 th |-> [t \in 1 .. MaxThreads |-> [pc |-> "idle", id |-> 0, tmp |-> 0]],
                 rec |-> [id \in 1 .. MaxTraces |-> 0],
                 ret |-> [id \in 1 .. MaxTraces |-> 0]]}
          \cup {[c |-> "mirror", pipe |-> <<>>, status |-> <<>>, active |-> None,
                 hist |-> [p \in {"normal", "mult"} |-> <<>>]]}
          \cup {[c |-> "trace", mode |-> m, data |-> d, uuid |-> 0, ids |-> <<>>] :
                    m \in {"normal", "mult"},
                    d \in UNION {[1 .. n -> -2 .. 0] : n \in 1 .. MaxExecs}}
          \cup {[c |-> "record", exists |-> e, status |-> "pending", stamp |-> 0,
                 trace |-> [i \in 1 .. n |->
                              [input |-> [k \in K |-> 0], output |-> [k \in K |-> 0],
                               accumulated_state |-> [k \in K |-> 0]]],
                 call |-> [t \in 1 .. MaxCallers |->
                             [pc |-> "idle", patch |-> <<>>, std |-> "none",
                              ret |-> "none", trace |-> <<>>]]] :
                    e \in BOOLEAN, n \in 0 .. MaxTrace, K \in SUBSET Keys}
          \cup {[c |-> "templates", builtin |-> B,
                 dir |-> [p \in 1 .. MaxPaths |-> 0],
                 pending |-> [p \in 1 .. MaxPaths |-> "none"],
                 tpl |-> [p \in 1 .. MaxPaths |->
                            [source |-> IF p \in B THEN "builtin" ELSE "none",
                             content |-> 0]]] :
                    B \in SUBSET (1 .. MaxPaths)}
          \cup {[c |-> "registry", i |-> 1, trees |-> t,
                 entries |-> [n \in 1 .. MaxTypes |-> "none"]] :
                    t \in [{"builtin", "custom", "user"} -> SUBSET (1 .. MaxTypes)]}

NextLib ==
    \/ \E k \in {"llm", "embedding"}, n \in 1 .. MaxModels :
          \/ \E d \in BOOLEAN : save_model(k, [name |-> n, is_default |-> d])
          \/ delete_model(k, n)
          \/ set_default_model(k, n)
    \/ ProgRepetition \/ ProgExecute \/ ProgMultiplier \/ ProgSeed
    \/ Discover
    \/ \E n \in 1 .. MaxTypes :
          \/ \E source \in {"custom", "user"} : register(n, source)
          \/ unregister(n)
    \/ \E p \in 1 .. MaxPaths : on_modified(p)
    \/ _schedule_callback
    \/ \E t \in 1 .. MaxEvents : TimerRun(t) \/ _execute_callback(t)
    \/ \E t \in 1 .. MaxThreads, id \in 1 .. MaxTraces :
          callback(t, id) \/ get_and_clear(t, id)
    \/ \E p \in {"normal", "mult"} : LibCreateJob(p)
    \/ LibUpdateJob
    \/ NormalContext \/ SeedContext
    \/ \E t \in 1 .. MaxCallers :
          \/ \E K \in SUBSET Keys \ {{}}, std \in {"none", "accepted"} :
                RecFetch(t, [k \in K |-> t], std)
          \/ RecWrite(t)
    \/ \E p \in 1 .. MaxPaths :
          \/ \E event_type \in {"created", "modified", "deleted"},
                v \in 1 .. MaxVersions : TemplateFileEvent(p, event_type, v)
          \/ TemplateHandleChange(p)

SpecLib == InitLib /\ [][NextLib]_vars

\* ================================================================ claims
Running == {j \in queued : job[j].status = "running"}
Working == {j \in JobIds : w[j].pc \notin {"idle", "done"}}

\* C1: at most one job held by the queue has the non-terminal status running.
C1_OneRunning == Cardinality(Running) <= 1

\* C1 witness: two jobs are held, one running, while the worker of the other,
\* already terminal, is still updating it.
C1_Witness ==
    \E j \in Running : \E k \in queued \ {j} :
        job[k].status \in TERMINAL_STATUSES /\ w[k].pc = "updQ"

\* C2: at most one job worker is running at any instant.
C2_OneWorker == Cardinality(Working) <= 1

\* C3: once the worker has passed a cancellation check that saw the cancel, no
\* new record of the job is persisted.
C3_NoRecordAfterCheck ==
    [][\A j \in JobIds : chk[j] => dbRecs'[j] <= dbRecs[j]]_vars

\* C4: after cancel returned for a running job its mirrored status stays cancelled.
C4_StaysCancelled ==
    \A j \in queued : cancelRet[j] => job[j].status = "cancelled"

\* C5: no execution is started while the mirrored status is cancelled or stopped.
C5_NoStartAfterStop == \A j \in JobIds : ~badStart[j]

\* C6: within one execution at most one block invocation begins after cancel returned.
C6_OneBlockAfterCancel == \A j \in JobIds : blkAfter[j] <= 1

\* C7: with no status update of a job in flight, its mirror and its row agree on status.
UpdateInFlight(j) == w[j].pc = "updS" \/ cancelReq = j
C7_MirrorEqualsRow ==
    \A j \in queued \cap dbRows : ~UpdateInFlight(j) => job[j].status = dbJob[j].status

\* C8: create_job with the slot taken fails and changes nothing; with the slot
\* free it stores the job as running and makes it the active job.
C8_CreateContract ==
    [][\A j \in JobIds :
         (gen[j] = "row" /\ gen'[j] # "row") =>
            IF active # None
            THEN /\ gen'[j] = "rejected"
                 /\ UNCHANGED <<queued, job, history, active>>
            ELSE /\ gen'[j] = "admitted"
                 /\ queued' = queued \cup {j}
                 /\ job'[j].status = "running"
                 /\ active' = j
                 /\ \A k \in queued : job'[k] = job[k]]_vars

\* C8 witness: one create_job was rejected and one was admitted.
C8_Witness ==
    \E j, k \in JobIds : gen[j] = "rejected" /\ gen[k] = "admitted"

\* C9: under fairness, whenever a job held by the queue is running or the active
\* slot is taken, later every job the queue holds is terminal and the slot is free.
C9_Terminates ==
    (Running # {} \/ active # None) ~> (Running = {} /\ active = None)

\* C9 witness: a job failed on a missing pipeline and a later job was admitted.
C9_Witness ==
    \E j, k \in queued :
        /\ j < k
        /\ job[j].pipeline_id = "missing" /\ job[j].status = "failed"
        /\ w[j].pc = "done"
        /\ active = k
\* C10: when a block of a normal execution returns a mapping with a key outside
\* its declared outputs (no "*"), ValidationError is raised as such, the mapping
\* is not merged and no trace entry is appended; a mapping is merged only when
\* its keys are declared.
C10_OutputValidation ==
    [][x.pc = "ret" =>
         LET b == x.outputs[x.i]
             violation == ~b.star /\ ~(DOMAIN x.r \subseteq b.keys)
         IN /\ violation => /\ x'.pc = "raised" /\ x'.err = "ValidationError"
                             /\ x'.state = x.state /\ x'.trace = x.trace
            /\ x'.pc \in {"call", "done"} => ~violation]_vars

\* C11: in every trace the first entry's input is the data the execution (or
\* the fan-out seed) started from, every later entry's input is the accumulated
\* state recorded by the entry before it, and the accumulated state of an entry
\* is its input with the block's output merged in.
ChainOK(tr, start) ==
    \A i \in 1 .. Len(tr) :
        /\ tr[i].input = IF i = 1 THEN start ELSE tr[i - 1].accumulated_state
        /\ tr[i].error = "None" => tr[i].accumulated_state = Merge(tr[i].input, tr[i].output)
C11_TraceChain ==
    /\ x.pc \in {"call", "ret", "raised", "done"} /\ x.mode = "normal"
          => ChainOK(x.trace, x.initial_data)
    /\ x.pc \in {"scall", "sret", "send"} => ChainOK(x.trace, x.seeds[x.f])
    /\ x.pc \in {"seed", "scall", "sret", "send", "done"} /\ x.mode = "mult" =>
          \A k \in 1 .. Len(x.results) :
              ChainOK(x.results[k].trace, x.seeds[x.results[k].seed])

\* C11 witness: a normal execution returned a trace of two entries whose second
\* input differs from the initial data.
C11_Witness ==
    /\ x.pc = "done" /\ x.mode = "normal" /\ Len(x.trace) = 2
    /\ x.trace[2].input # x.initial_data

\* C12 as stated: a normal execution that returns without raising returns a
\* trace whose length is the block count.
C12_TraceLengthIsBlockCount ==
    x.pc = "done" /\ x.mode = "normal" => Len(x.trace) = NBlocks

\* C12 amended: a normal execution that returns without raising returns one
\* result whose trace has one entry per block, unless a pre-block check saw the
\* cancel of its job: then the trace has one entry per block that ran before it.
C12_TraceLengthUnlessCancelled ==
    x.pc = "done" /\ x.mode = "normal" =>
        /\ Len(x.trace) = x.i - (IF Len(x.trace) = NBlocks THEN 0 ELSE 1)
        /\ Len(x.trace) <= NBlocks
        /\ ~SeesCancel => Len(x.trace) = NBlocks

\* C12 witness: an attached execution returned after its second pre-block check
\* saw the cancel, with the first block's entry only.
C12_Witness ==
    /\ x.pc = "done" /\ x.mode = "normal" /\ SeesCancel
    /\ x.i = 2 /\ Len(x.trace) = 1

\* C13: a multiplier execution whose first block produced N seeds returns at
\* most N results, in seed order, each of a different seed, each with a trace
\* of exactly NBlocks - 1 entries none of which carries an error.
C13_FanOutResults ==
    x.mode = "mult" /\ x.pc \in {"seed", "scall", "sret", "send", "done"} =>
        /\ Len(x.results) <= Len(x.seeds)
        /\ \A k \in 1 .. Len(x.results) :
              /\ x.results[k].seed \in 1 .. Len(x.seeds)
              /\ \A l \in 1 .. Len(x.results) :
                    k < l => x.results[k].seed < x.results[l].seed
              /\ Len(x.results[k].trace) = NBlocks - 1
              /\ \A i \in 1 .. Len(x.results[k].trace) :
                    x.results[k].trace[i].error = "None"

\* C13 witness: of two seeds the first failed in a block and the second was
\* returned as the only result.
C13_Witness ==
    /\ x.pc = "done" /\ x.mode = "mult" /\ ~x.attached
    /\ Len(x.seeds) = 2 /\ Len(x.results) = 1 /\ x.results[1].seed = 2

\* C15: a block's _usage never makes the execution or the seed fail: when a
\* block returned a mapping that passes output validation, the block's entry
\* is appended and the mapping merged whatever the _usage was; a valid _usage
\* is added to the execution's usage, an invalid or missing one adds nothing.
C15_UsageNeverFatal ==
    [][x.pc \in {"ret", "sret"} /\ validate_output(x.outputs[x.i], x.r) =>
         /\ x'.pc # "raised" /\ x'.err = x.err
         /\ x'.state = Merge(x.state, x.r)
         /\ Len(x'.trace) = Len(x.trace) + 1
         /\ x'.trace[Len(x'.trace)].error = "None"
         /\ x'.usage = x.usage + (IF x.u = "valid" THEN 1 ELSE 0)]_vars

\* C14: constructing a pipeline succeeds exactly when its block list has no
\* multiplier block, or exactly one and in first position; in every other case
\* construction raises ValidationError.
C14_MultiplierPlacement ==
    x.pc = "built" =>
        LET bs == x.blocks
            none == \A i \in 1 .. Len(bs) : bs[i] # "mult"
            first_only == /\ Len(bs) >= 1 /\ bs[1] = "mult"
                          /\ \A i \in 2 .. Len(bs) : bs[i] # "mult"
        IN /\ x.res = "ok" <=> (none \/ first_only)
           /\ x.res # "ok" => x.res = "ValidationError"

\* C14 witness: a list of three blocks with its only multiplier in second
\* position was rejected.
C14_Witness ==
    /\ x.pc = "built" /\ x.blocks = <<"plain", "mult", "plain">>
    /\ x.res = "ValidationError"

\* C18: is_exceeded is true exactly when some limit other than -1 is reached or
\* passed by its usage figure (reaching it counts), it names the first such
\* limit in the order total, input, output, cached, execution time, and with
\* every limit at -1 it is false with no name.
LimitOrder ==
    <<"max_total_tokens", "max_total_input_tokens", "max_total_output_tokens",
      "max_total_cached_tokens", "max_total_execution_time">>
Figure(u, k) ==
    IF k = 1 THEN u.input_tokens + u.output_tokens + u.cached_tokens
    ELSE IF k = 2 THEN u.input_tokens ELSE IF k = 3 THEN u.output_tokens
    ELSE IF k = 4 THEN u.cached_tokens ELSE u.elapsed_time
Met(c, u, k) == c[LimitOrder[k]] # -1 /\ ~(Figure(u, k) < c[LimitOrder[k]])
C18_IsExceeded ==
    x.pc = "checked" =>
        /\ x.out # "none" <=> \E k \in 1 .. 5 : Met(x.c, x.u, k)
        /\ \A k \in 1 .. 5 :
              Met(x.c, x.u, k) /\ (\A l \in 1 .. k - 1 : ~Met(x.c, x.u, l))
                  => x.out = LimitOrder[k]
        /\ (\A k \in 1 .. 5 : x.c[LimitOrder[k]] = -1) => x.out = "none"

\* C18 witness: the total stays below its limit, the input tokens reach theirs
\* exactly and the output limit is passed too: the input limit is named.
C18_Witness ==
    /\ x.pc = "checked" /\ x.out = "max_total_input_tokens"
    /\ x.c.max_total_tokens = 2 /\ x.c.max_total_input_tokens = 1
    /\ x.c.max_total_output_tokens = 0
    /\ x.u.input_tokens = 1 /\ x.u.output_tokens = 0 /\ x.u.cached_tokens = 0

\* C16: for every job the queue holds with status stopped, is_exceeded of the
\* job's constraints on the job's recorded usage is true and the job's error
\* names a limit, also after the processor's later usage write.
C16_StoppedMeansExceeded ==
    \A j \in queued :
        job[j].status = "stopped" =>
            /\ is_exceeded(PipelineConstraints(job[j].pipeline_id),
                           UsageOf(j, job[j].tok, job[j].tstart)) # "none"
            /\ \E k \in 1 .. 5 : job[j].error = LimitOrder[k]

\* C17 as stated: in scenario S3 with no failed execution and no cancel, the
\* third execution triggers the stop, the error is max_total_tokens and
\* records_generated is 2.
S3Stopped(j) ==
    /\ j \in queued /\ job[j].pipeline_id = "s3" /\ job[j].status = "stopped"
    /\ job[j].rf = 0 /\ ~cancelRet[j]
C17_StopsWithTwoRecords ==
    \A j \in JobIds :
        S3Stopped(j) =>
            /\ w[j].pc # "done" => w[j].s = 3
            /\ job[j].error = "max_total_tokens"
            /\ job[j].rg = 2

\* C17 amended: in scenario S3 with no failed execution and no cancel, the
\* third execution triggers the stop, the error is max_total_tokens and
\* records_generated is 3: the record of the third execution is saved and
\* counted before the limit is checked.
C17_StopsWithThreeRecords ==
    \A j \in JobIds :
        S3Stopped(j) =>
            /\ w[j].pc # "done" => w[j].s = 3
            /\ job[j].error = "max_total_tokens"
            /\ job[j].rg = 3 /\ job[j].tok = 3 * S3Tokens
            /\ j \in dbRows => dbRecs[j] = 3

\* C17 witness: the job of scenario S3 ended stopped, nothing failed, nothing
\* was cancelled or deleted, and its worker thread has finished.
C17_Witness ==
    \E j \in JobIds : S3Stopped(j) /\ w[j].pc = "done" /\ j \in dbRows /\ dbRecs[j] = 3

\* C19: an execution of the processor's loop that raises increments the job's
\* records_failed by exactly one, persists no record, and does not end the
\* job: the loop goes on and the job does not end failed.
FailurePending(j) ==
    /\ w[j].pc \in {"updQ", "updS"}
    /\ "rf" \in DOMAIN w[j].pend /\ "error" \in DOMAIN w[j].pend
C19_FailedExecution ==
    [][\A j \in JobIds :
         /\ FailurePending(j) => dbRecs'[j] <= dbRecs[j]
         /\ FailurePending(j) /\ w[j].pc = "updQ" /\ w'[j].pc = "updS" /\ j \in queued
               => job'[j].rf = job[j].rf + 1
         /\ FailurePending(j) /\ w[j].pc = "updS" /\ w'[j].pc # "updS"
               => w'[j].pc \in {"repChk", "postChk"}
         /\ w'[j].pc = "done" /\ j \in queued' /\ job'[j].rf > 0
               => job'[j].status \in {"completed", "cancelled", "stopped"}]_vars

\* C20: when a block fails inside a fan-out seed of a job's multiplier
\* execution, an entry carrying the error is appended to the seed's trace, no
\* record is persisted for the seed, the job's records_failed grows by exactly
\* one, the seed adds no result, and the seed loop goes on to the next seed
\* (after the constraint check every seed is followed by).
SeedFailed(j) ==
    /\ w[j].pc \in {"mFail", "updQ", "updS", "mCons"}
    /\ w[j].tr # <<>> /\ w[j].tr[Len(w[j].tr)] = "exception"
C20_SeedFailure ==
    [][\A j \in JobIds :
         /\ w[j].pc = "mBlkRun" /\ w'[j].pc = "mFail"
               => /\ w'[j].tr = Append(w[j].tr, "exception")
                  /\ w'[j].nres = w[j].nres
         /\ SeedFailed(j)
               => /\ dbRecs'[j] <= dbRecs[j]
                  /\ w'[j].pc # "mRet" => w'[j].nres = w[j].nres
         /\ SeedFailed(j) /\ w[j].pc = "updQ" /\ "rf" \in DOMAIN w[j].pend
                          /\ w'[j].pc = "updS" /\ j \in queued
               => job'[j].rf = job[j].rf + 1
         /\ SeedFailed(j) /\ w[j].pc = "mCons" /\ w'[j] # w[j]
               => \/ w'[j].pc = "mSeedChk" /\ w'[j].f = w[j].f + 1
                  \/ w[j].f = w[j].n /\ w'[j].pc = "mRet"
                  \/ /\ w'[j].pc = "updQ" /\ "status" \in DOMAIN w'[j].pend
                     /\ w'[j].pend.status = "stopped"]_vars

\* C20 witness: the first of two seeds failed in a block, the job's
\* records_failed is 1 with no record and no result, and the second seed is
\* about to run its block.
C20_Witness ==
    \E j \in queued :
        /\ w[j].pc = "mBlkGo" /\ w[j].f = 2 /\ w[j].n = 2 /\ w[j].nres = 0
        /\ job[j].rf = 1 /\ w[j].rf = 0 /\ dbRecs[j] = 0

\* C21: once storage.delete_pipeline has deleted the pipeline, storage holds no
\* job row and no record of the pipeline (every row and record of SpecPipe is of
\* that pipeline)
C21_NoRowsOfDeletedPipeline ==
    x.deleted => dbRows = {} /\ \A j \in JobIds : dbRecs[j] = 0


\* C22: for each model kind, either no model is stored or exactly one of the
\* stored models reads back with is_default = true
C22_OneDefault ==
    x.c = "models" =>
        \A k \in DOMAIN x.tab :
            \/ x.tab[k] = {}
            \/ Cardinality({r \in x.tab[k] : ModelConfig(r).is_default}) = 1


\* C23: update_job(j, status = s) with s terminal on a job of the queue sets its
\* status to s and its completed_at to the time of the call, or to the value the
\* caller supplied, and clears the active slot exactly when the slot holds j;
\* a slot that holds another job, or none, is left as it is
C23_TerminalUpdate ==
    [][\A j \in queued, st \in TERMINAL_STATUSES :
          /\ QUpdate(j, [status |-> st]) =>
                /\ job'[j].status = st /\ x'.completed[j] = x.now
                /\ active' = IF active = j THEN None ELSE active
          /\ \A c \in {None, 1} :
                QUpdate(j, [status |-> st, completed_at |-> c]) =>
                    /\ job'[j].status = st /\ x'.completed[j] = c
                    /\ active' = IF active = j THEN None ELSE active]_vars

\* job 1 was cancelled, job 2 admitted, then update_job(1, status = failed)
C23_Witness ==
    /\ x.op = [name |-> "update", j |-> 1]
    /\ job[1].status = "failed" /\ x.completed[1] = x.now - 1
    /\ active = 2 /\ job[2].status = "running"


\* C24 (as stated): no change a caller makes to a job it got from a getter, to a
\* field or to a counter of its usage, changes the jobs the queue holds
C24_NoMutationReachesQueue ==
    [][x'.op.name = "mutate" => job' = job]_vars

\* C24 (amended): an assignment to a field of a job got from a getter does not
\* change the jobs the queue holds
C24_FieldMutationStaysLocal ==
    [][x'.op.name = "mutate" /\ x'.held.status # x.held.status => job' = job]_vars

\* the caller set the status of its copy of a running job of the queue to failed
C24_Witness ==
    /\ x.op.name = "mutate" /\ x.held.id \in queued
    /\ x.held.status = "failed" /\ job[x.held.id].status = "running"

\* C25: get_pipeline_history(p) lists the jobs of p from the most recently
\* created one to the oldest, and never more than HistoryMax of them
C25_HistoryMostRecentFirst ==
    \A p \in PipeIds :
        LET h == get_pipeline_history(p)
        IN /\ Len(h) <= HistoryMax
           /\ \A a, b \in 1 .. Len(h) : a < b => x.started[h[a]] > x.started[h[b]]


\* C26: the records a job counts as generated or failed are never more than
\* total_seeds x max_repetitions, total_seeds being the job's field at that
\* moment and max_repetitions the largest repetitions of a seed of the file
C26_RecordsBounded ==
    x.c = "progress" =>
        LET reps == {Repetitions(x.seeds[i]) : i \in 1 .. Len(x.seeds)}
            max_repetitions == CHOOSE m \in reps : \A r \in reps : r <= m
        IN x.job.rg + x.job.rf <= x.job.total_seeds * max_repetitions

\* C27: the progress of a job is a number from 0 to 1
C27_ProgressInUnit ==
    x.c = "progress" =>
        LET p == x.job.progress
        IN \/ p.d > 0 /\ 0 <= p.n /\ p.n <= p.d
           \/ p.d < 0 /\ p.d <= p.n /\ p.n <= 0


\* C28: a block type name that the builtin tree defines never has a registry
\* entry of another source: after discovery its entry is the builtin one, and
\* registering a user or custom block of that name does not replace it
C28_BuiltinShadowsUser ==
    x.c = "registry" =>
        \A n \in x.trees["builtin"] : x.entries[n] \in {"none", "builtin"}


\* C29: a burst of events on one path makes exactly one callback for the path,
\* after the last event of the burst: never a second callback, and once the
\* callback is made no call and no timer of the path is outstanding
C29_OneCallbackPerBurst ==
    x.c = "debounce" =>
        \A p \in 1 .. MaxPaths :
            /\ x.cb[p] <= 1
            /\ x.cb[p] = 1 =>
                  /\ x.h.p # p
                  /\ \A t \in 1 .. Len(x.timers) :
                        x.timers[t].p = p => x.timers[t].st \in {"cancelled", "done"}


\* C30: for each trace id, what get_and_clear has returned (or has taken out and
\* is about to return) plus what is stored equals the deltas the callbacks have
\* added for that id, under every interleaving; and while a get_and_clear holds
\* the entry it took, the id has no entry, so that a get_and_clear that follows
\* at once returns zeros
Taken(id) ==
    LET T == {t \in 1 .. MaxThreads : x.th[t].pc = "gcReturn" /\ x.th[t].id = id}
    IN IF T = {} THEN 0 ELSE x.th[CHOOSE t \in T : TRUE].tmp

C30_UsageConserved ==
    x.c = "tracker" =>
        \A id \in 1 .. MaxTraces :
            /\ x.ret[id] + Taken(id) + (IF x.usage[id].has THEN x.usage[id].v ELSE 0)
                  = x.rec[id]
            /\ Taken(id) > 0 => ~x.usage[id].has

\* two callbacks and a get_and_clear of one id have run and a further callback
\* of it is stored: 2 returned, 1 stored, 3 recorded
C30_Witness ==
    /\ x.c = "tracker"
    /\ x.ret[1] = 2 /\ x.usage[1].has /\ x.usage[1].v = 1 /\ x.rec[1] = 3

\* C31: for every job the queue holds, once a usage update that follows a
\* completed execution has been applied, the mirrored usage counter is the sum
\* of the deltas of the executions completed so far: those the processor has
\* accumulated (w.tok) and, inside a multiplier execution, those of the seeds
\* that have returned a result (w.rtok); no delta is counted twice or dropped
C31_UsageIsSumOfDeltas ==
    \A j \in queued :
        /\ w[j].pc \notin {"idle", "done"}
        /\ ~(w[j].pc = "updQ" /\ "tok" \in DOMAIN w[j].pend)
        => job[j].tok = w[j].tok + w[j].rtok

\* in the second repetition of a multiplier job whose first repetition returned
\* two results, the executor has written the usage of the first seed
C31_Witness ==
    \E j \in queued :
        /\ w[j].p = "mult" /\ w[j].r = 2 /\ w[j].pc = "mCons"
        /\ w[j].tok = 2 /\ w[j].rtok = 1 /\ job[j].tok = 3

\* C32 (as stated): whenever no update of a job is in flight (the worker is
\* not between a save_record and the end of the update that counts it, and no
\* request on the job is half done), the job's mirrored records_generated is
\* the number of records stored with its id
UpdateOrRequestInFlight(j) ==
    w[j].pc \in {"updQ", "updS", "mGen"} \/ cancelReq = j \/ delReq = j
C32_GeneratedEqualsRows ==
    \A j \in queued : ~UpdateOrRequestInFlight(j) => job[j].rg = dbRecs[j]

\* C32 (amended): whenever no update of a job is in flight, its mirrored
\* records_generated is the number of records saved with its id so far: the
\* number stored while no DELETE /records has removed records, and never less
\* than the number stored after one has
C32_GeneratedEqualsSaved ==
    \A j \in queued :
        ~UpdateOrRequestInFlight(j) =>
            /\ job[j].rg >= dbRecs[j]
            /\ ~x.wiped => job[j].rg = dbRecs[j]

\* in the second repetition of a multiplier job whose first repetition saved
\* two records, the executor has counted the record of the first seed
C32_Witness ==
    \E j \in queued :
        /\ w[j].p = "mult" /\ w[j].r = 2 /\ w[j].pc = "mUse" /\ ~x.wiped
        /\ w[j].rg = 2 /\ w[j].nres = 0 /\ job[j].rg = 3 /\ dbRecs[j] = 3

\* C33: once an update of a job that carries usage has returned, the usage of
\* the job's storage row equals the usage of the mirror
C33_RowUsageEqualsMirror ==
    \A j \in queued \cap dbRows :
        w[j].pc \notin {"idle", "updQ", "updS"} => dbJob[j].tok = job[j].tok

\* C34: of each pipeline the queue holds (returns from get_job) at most
\* HistoryMax jobs
C34_MirrorCapped ==
    x.c = "mirror" =>
        \A p \in DOMAIN x.hist :
            Cardinality({j \in 1 .. Len(x.pipe) : x.pipe[j] = p}) <= HistoryMax

\* C35: two distinct executions never carry the same trace_id, and no
\* execution's trace_id is the one its initial data holds
C35_FreshTraceId ==
    x.c = "trace" =>
        /\ \A i, k \in 1 .. Len(x.ids) : i # k => x.ids[i] # x.ids[k]
        /\ \A i \in 1 .. Len(x.ids) : x.ids[i] # x.data[i]

\* C36: a call of update_record_accumulated_state with patch changes, of the
\* record's trace, only the keys of patch in the accumulated_state of the last
\* entry: the earlier entries, the last entry's input and output and the keys
\* outside patch are as they were before its UPDATE; a call that finds no
\* record or an empty trace returns false and changes nothing
C36_OnlyPatchChanges ==
    [][x.c = "record" =>
        \A t \in 1 .. MaxCallers :
            /\ x.call[t].pc = "fetched" /\ x'.call[t].pc = "done" /\ x.exists =>
                  LET n == Len(x.trace)
                      old == x.trace[n].accumulated_state
                      new == x'.trace[n].accumulated_state
                  IN /\ Len(x'.trace) = n
                     /\ \A i \in 1 .. n - 1 : x'.trace[i] = x.trace[i]
                     /\ x'.trace[n].input = x.trace[n].input
                     /\ x'.trace[n].output = x.trace[n].output
                     /\ DOMAIN new = DOMAIN old \cup DOMAIN x.call[t].patch
                     /\ \A k \in DOMAIN old \ DOMAIN x.call[t].patch : new[k] = old[k]
                     /\ \A k \in DOMAIN x.call[t].patch : new[k] = x.call[t].patch[k]
            /\ x'.call[t].ret = "False" /\ x.call[t].ret # "False" =>
                  /\ x'.trace = x.trace /\ x'.status = x.status /\ x'.stamp = x.stamp
                  /\ x'.exists = x.exists]_vars

\* C40: once two calls of update_record_accumulated_state on one record with
\* patches of disjoint keys have both returned true, the accumulated_state of
\* the last trace entry holds the values of both patches
C40_BothPatchesApplied ==
    x.c = "record" =>
        \A t, u \in 1 .. MaxCallers :
            /\ t # u /\ x.call[t].ret = "True" /\ x.call[u].ret = "True"
            /\ DOMAIN x.call[t].patch \cap DOMAIN x.call[u].patch = {}
            => LET acc == x.trace[Len(x.trace)].accumulated_state
               IN \A k \in DOMAIN x.call[t].patch :
                     k \in DOMAIN acc /\ acc[k] = x.call[t].patch[k]

\* C37: the active slot, when set, names a job of the map whose status is
\* running, and every job of the map with status running is the one the slot
\* names: true of the empty queue and kept by every create_job, update_job,
\* cancel_job and delete_job, in any order, whose arguments the callers pass
\* (no caller passes status = running to update_job)
SlotPairing(a, q, jb) ==
    /\ a # None => a \in q /\ jb[a].status = "running"
    /\ \A j \in q : jb[j].status = "running" => a = j
C37_SlotPairing ==
    /\ SlotPairing(active, queued, job)
    /\ [][/\ SlotPairing(active, queued, job)
          /\ ~(/\ x'.op.name = "update" /\ x'.op.j # None
               /\ job'[x'.op.j].status = "running")
          => SlotPairing(active', queued', job')]_vars

\* job 1 was cancelled, job 2 admitted, then delete_job(1): the slot names job
\* 2, the only job of the map, and it is running
C37_Witness ==
    /\ x.op = [name |-> "delete", j |-> 1]
    /\ queued = {2} /\ active = 2 /\ job[2].status = "running"

\* C38: while the queue holds a job, no step lowers its mirrored
\* records_generated or records_failed
C38_CountersNeverDecrease ==
    [][\A j \in queued \cap queued' :
          job'[j].rg >= job[j].rg /\ job'[j].rf >= job[j].rf]_vars

\* C39: a builtin template stays registered with its builtin content and
\* source = builtin, whatever events the files of the user templates directory
\* went through
C39_BuiltinKept ==
    x.c = "templates" =>
        \A p \in x.builtin : x.tpl[p] = [source |-> "builtin", content |-> 0]

====
